---- MODULE Spec2Model ----
(***************************************************************************)
(* A model of thymer-inbox's `tm serve` daemon (src/cmd/tm): the in-memory *)
(* delivery queue of the HTTP server (main.go), and the three sync         *)
(* engines that feed it (github.go, calendar.go, readwise.go).             *)
(*                                                                         *)
(* Strings the code compares with < (queue identifiers) are modelled as    *)
(* sequences of byte values, so that fmt.Sprintf("%d") and Go's bytewise   *)
(* string order are computed, not assumed.                                 *)
(***************************************************************************)
EXTENDS Integers, Sequences, FiniteSets, TLC

VARIABLES
    queue,      \* Server.queue: map[string]QueueItem, a function from IDs to items
    clock,      \* the latest reading time.Now().UnixNano() has returned
    nEnq,       \* history: how many assignments s.queue[id] = item have run
    delivered,  \* history: the ID and ordinal of every item popOldest returned
    lastPop,    \* what the latest popOldest call returned (NoItem for nil)
    streams,    \* the /stream sessions whose handler is inside its select loop
    posting,    \* handleQueue requests between building req.ID and taking s.mu
    ghStore,    \* bucket "github_issues" of github.db: issue ID -> stored JSON
    calStore,   \* bucket "calendar_events" of calendar.db: event ID -> stored JSON
    rwStore,    \* bucket "documents" of readwise.db: document ID -> storedDoc
    rwLastSync, \* key "last_sync" of bucket "sync_meta" of readwise.db (0: unset)
    runs,       \* the doSync / doReadwiseSync calls in progress, by goroutine
    nRuns,      \* history: how many such calls have been started
    lastCall,   \* history: the latest upsert, its record and its classification
    upstream,   \* what each service lists for the configured scope
    lastFetch,  \* history: the latest adapter fetch and what it returned
    lastResp,   \* history: the latest HTTP request served and its status code
    signals,    \* per /stream session: the channels of its select that are ready
    converted   \* history: the identifier each remote record was converted to

queueVars == <<queue, nEnq, delivered, lastPop, streams, posting>>
fetchVars == <<upstream, lastFetch>>
storeVars == <<ghStore, calStore, rwStore, rwLastSync, runs, nRuns, fetchVars>>
httpVars == <<lastResp>>
sessVars == <<signals>>
convVars == <<converted>>

vars == <<queue, clock, nEnq, delivered, lastPop, streams, posting,
          ghStore, calStore, rwStore, rwLastSync, runs, nRuns, lastCall,
          upstream, lastFetch, lastResp, signals, converted>>

----------------------------------------------------------------------------
(* Bounds of the model.                                                    *)

\* The clock runs over ClockBase .. ClockBase + MaxTicks. UnixNano has 19
\* decimal digits from 2001 to 2262; the model keeps that property (a fixed
\* width) at 4 digits, and lets the readings cross a multiple of 1000 so that
\* handleQueue's "% 1000" suffix wraps.
ClockBase == 1999
MaxTicks == 1
\* Assignments to the queue in one behaviour.
MaxEnq == 3
\* Items in one batch handed to a queue*Changes callback.
MaxBatch == 2

MaxClock == ClockBase + MaxTicks

\* The /stream sessions and the in-flight POST /queue requests.
Sessions == {"s1", "s2"}
PostSlots == {"p1"}

\* The goroutines that run a sync: per source, the periodic one that
\* StartPeriodicSync / startReadwiseSync starts, and one started by a handler
\* of POST /sync/{source} ("go s.ghSyncer.doSync(...)").
Sources == {"github", "calendar", "readwise"}
Goroutines == Sources \X {"timer", "trigger"}

NoItem == [none |-> TRUE]
Idle == [idle |-> TRUE]
NoCall == [src |-> "none", flip |-> FALSE]
NoResp == [endpoint |-> "none"]
\* No remote record converted yet.
NoneConverted == [github |-> <<>>, calendar |-> <<>>, readwise |-> <<>>,
                  last |-> [src |-> "none"]]
\* A session whose ticker and timer have not fired and whose client is there.
NoSignals == [tick |-> FALSE, timeout |-> FALSE, done |-> FALSE,
              fired |-> 0, popped |-> 0]

----------------------------------------------------------------------------
(* Strings as byte sequences.                                              *)

\* fmt.Sprintf("%d", n) for n >= 0: the decimal digits of n, most
\* significant first, as ASCII bytes.
RECURSIVE FmtInt(_)
FmtInt(n) ==
    IF n < 10 THEN <<48 + n>>
    ELSE FmtInt(n \div 10) \o <<48 + (n % 10)>>

\* Go's < on strings: bytewise lexicographic, a proper prefix is smaller.
StrLess(a, b) ==
    \E i \in 1..(Len(b)) :
        /\ \A j \in 1..(i - 1) : j <= Len(a) /\ a[j] = b[j]
        /\ \/ i = Len(a) + 1
           \/ i <= Len(a) /\ a[i] < b[i]

GhPrefix == <<103, 104, 45>>          \* "gh-"
CalPrefix == <<99, 97, 108, 45>>      \* "cal-"
RwPrefix == <<114, 119, 45>>          \* "rw-"
Dash == <<45>>                        \* "-"

\* The non-decreasing sequences of n clock readings not before `from`:
\* what n successive time.Now() calls can return.
Stamps(from, n) ==
    {ts \in [1..n -> from..MaxClock] :
        \A i \in 1..n : \A j \in 1..n : i < j => ts[i] <= ts[j]}

----------------------------------------------------------------------------
(* The queue.                                                              *)

\* s.queue[item.ID] = item
Put(q, item) ==
    [id \in DOMAIN q \cup {item.ID} |-> IF id = item.ID THEN item ELSE q[id]]

\* The items of one batch, built by the loop of a queue*Changes callback:
\* item i takes its ID from the i-th clock reading; `ser` is history (the
\* ordinal of the assignment that stored the item), not a field of QueueItem.
BatchItem(prefix, change, t, ser) ==
    [ID |-> prefix \o FmtInt(t), Title |-> change.Title,
     Content |-> change.Content, ser |-> ser]

RECURSIVE PutBatch(_, _, _, _, _)
PutBatch(q, prefix, changes, ts, ser) ==
    IF changes = <<>> THEN q
    ELSE PutBatch(Put(q, BatchItem(prefix, Head(changes), Head(ts), ser)),
                  prefix, Tail(changes), Tail(ts), ser + 1)

\* The body shared by queueGitHubChanges, queueCalendarChanges and the locked
\* part of doReadwiseSync: under s.mu, one item per change. It constrains
\* queue, clock and nEnq only; the action that calls it frames the rest.
EnqueueBatch(prefix, changes) ==
    /\ changes # <<>>
    /\ nEnq + Len(changes) <= MaxEnq
    /\ \E ts \in Stamps(clock, Len(changes)) :
        /\ queue' = PutBatch(queue, prefix, changes, ts, nEnq + 1)
        /\ clock' = ts[Len(ts)]
    /\ nEnq' = nEnq + Len(changes)

\* Content stands for the record's ToMarkdown rendering, which the queue
\* never looks into: it is the record itself.
queueGitHubChanges(issues) ==
    EnqueueBatch(GhPrefix, [i \in 1..Len(issues) |->
        [Title |-> issues[i].Title, Content |-> issues[i]]])

queueCalendarChanges(events) ==
    EnqueueBatch(CalPrefix, [i \in 1..Len(events) |->
        [Title |-> events[i].Title, Content |-> events[i]]])

queueReadwiseChanges(docs) ==
    EnqueueBatch(RwPrefix, [i \in 1..Len(docs) |->
        [Title |-> docs[i].Document.Title, Content |-> docs[i]]])

\* handleQueue, first part: the request is decoded, an empty content is
\* refused, and req.ID is built from two clock readings, before s.mu is taken.
handleQueueBuild(p, content) ==
    /\ posting[p] = Idle
    /\ content # ""
    /\ \E ts \in Stamps(clock, 2) :
        /\ posting' = [posting EXCEPT ![p] =
              [ID |-> FmtInt(ts[1]) \o Dash \o FmtInt(ts[2] % 1000),
               Title |-> "", Content |-> content]]
        /\ clock' = ts[2]
    /\ UNCHANGED <<queue, nEnq, delivered, lastPop, streams, storeVars, lastCall>>

\* handleQueue, second part: s.mu.Lock(); s.queue[req.ID] = req; s.mu.Unlock().
handleQueueStore(p) ==
    /\ posting[p] # Idle
    /\ nEnq < MaxEnq
    /\ queue' = Put(queue, [ID |-> posting[p].ID, Title |-> posting[p].Title,
                            Content |-> posting[p].Content, ser |-> nEnq + 1])
    /\ nEnq' = nEnq + 1
    /\ posting' = [posting EXCEPT ![p] = Idle]
    /\ UNCHANGED <<clock, delivered, lastPop, streams, storeVars, lastCall>>

\* popOldest's scan "for id := range s.queue": the ids are visited in some
\* order, and oldestID is replaced when it is "" or the id is smaller.
RECURSIVE ScanOldestMutantNewest(_, _)
ScanOldestMutantNewest(ids, oldestID) ==
    IF ids = {} THEN oldestID
    ELSE LET id == CHOOSE x \in ids : TRUE
         IN ScanOldestMutantNewest(ids \ {id},
                       IF oldestID = <<>> \/ StrLess(oldestID, id)
                       THEN id ELSE oldestID)

RECURSIVE ScanOldest(_, _)
ScanOldest(ids, oldestID) ==
    IF ids = {} THEN oldestID
    ELSE LET id == CHOOSE x \in ids : TRUE
         IN ScanOldest(ids \ {id},
                       IF oldestID = <<>> \/ StrLess(id, oldestID)
                       THEN id ELSE oldestID)

\* popOldest: the item returned (NoItem for nil) and the queue left behind.
popOldestMutantNoDelete(q) ==
    IF DOMAIN q = {} THEN [item |-> NoItem, queue |-> q]
    ELSE LET oldestID == ScanOldest(DOMAIN q, <<>>)
         IN [item |-> q[oldestID], queue |-> q]

popOldest(q) ==
    IF DOMAIN q = {} THEN [item |-> NoItem, queue |-> q]
    ELSE LET oldestID == ScanOldest(DOMAIN q, <<>>)
         IN [item |-> q[oldestID],
             queue |-> [id \in DOMAIN q \ {oldestID} |-> q[id]]]

\* One call of popOldest by a handler.
PopCallMutantDrains ==
    /\ LET r == popOldest(queue)
       IN /\ queue' = popOldest(r.queue).queue
          /\ lastPop' = r.item
          /\ delivered' = IF r.item = NoItem THEN delivered
                          ELSE Append(delivered,
                                      [ID |-> r.item.ID, ser |-> r.item.ser])
    /\ UNCHANGED <<clock, nEnq, posting, storeVars, lastCall>>

PopCall ==
    /\ LET r == popOldest(queue)
       IN /\ queue' = r.queue
          /\ lastPop' = r.item
          /\ delivered' = IF r.item = NoItem THEN delivered
                          ELSE Append(delivered,
                                      [ID |-> r.item.ID, ser |-> r.item.ser])
    /\ UNCHANGED <<clock, nEnq, posting, storeVars, lastCall>>

\* handleStream up to its loop: headers, the connected event, the ticker.
handleStreamOpen(s) ==
    /\ s \notin streams
    /\ streams' = streams \cup {s}
    /\ UNCHANGED <<queue, clock, nEnq, delivered, lastPop, posting, storeVars, lastCall>>

\* handleStream, case <-ticker.C: pop one item and send it, or a heartbeat.
handleStreamTick(s) ==
    /\ s \in streams
    /\ PopCall
    /\ UNCHANGED streams

\* handleStream, case <-timeout and case <-r.Context().Done(): return.
handleStreamEnd(s) ==
    /\ s \in streams
    /\ streams' = streams \ {s}
    /\ UNCHANGED <<queue, clock, nEnq, delivered, lastPop, posting, storeVars, lastCall>>

\* handlePending: pop one item, or 204.
handlePending ==
    /\ PopCall
    /\ UNCHANGED streams

\* handlePeek's sort.Slice(items, items[i].ID < items[j].ID) over the items
\* copied from the map, whose keys are distinct.
RECURSIVE SortByID(_, _)
SortByID(q, ids) ==
    IF ids = {} THEN <<>>
    ELSE LET first == CHOOSE x \in ids : \A y \in ids \ {x} : StrLess(x, y)
         IN <<q[first]>> \o SortByID(q, ids \ {first})

\* The body handlePeek encodes: {"count": len(items), "items": items}.
peekResponse(q) ==
    LET items == SortByID(q, DOMAIN q)
    IN [count |-> Len(items), items |-> items]

----------------------------------------------------------------------------
(* The queue under arbitrary producers and consumers.                      *)

\* The changes a callback can be handed (rendered by ToMarkdown, which the
\* queue never looks into).
BatchesOf(change) == {[i \in 1..n |-> change] : n \in 1..MaxBatch}
GhBatches == BatchesOf([Title |-> "issue"])
CalBatches == BatchesOf([Title |-> "event"])
RwBatches == BatchesOf([Document |-> [Title |-> "document"]])
Contents == {"", "note"}

\* The onChange callbacks as runServer registers them, and the tail of
\* doReadwiseSync, each handed a batch of changes.
GitHubOnChange(issues) ==
    /\ queueGitHubChanges(issues)
    /\ UNCHANGED <<delivered, lastPop, streams, posting, storeVars, lastCall>>

CalendarOnChange(events) ==
    /\ queueCalendarChanges(events)
    /\ UNCHANGED <<delivered, lastPop, streams, posting, storeVars, lastCall>>

ReadwiseOnChange(docs) ==
    /\ queueReadwiseChanges(docs)
    /\ UNCHANGED <<delivered, lastPop, streams, posting, storeVars, lastCall>>

QueueInit ==
    /\ queue = <<>>
    /\ clock = ClockBase
    /\ nEnq = 0
    /\ delivered = <<>>
    /\ lastPop = NoItem
    /\ streams = {}
    /\ posting = [p \in PostSlots |-> Idle]
    /\ ghStore = <<>>
    /\ calStore = <<>>
    /\ rwStore = <<>>
    /\ rwLastSync = 0
    /\ runs = [g \in Goroutines |-> Idle]
    /\ nRuns = 0
    /\ lastCall = NoCall
    /\ upstream = [src \in Sources |-> <<>>]
    /\ lastFetch = [src |-> "none"]
    /\ lastResp = NoResp
    /\ signals = [s \in Sessions |-> NoSignals]
    /\ converted = NoneConverted

QueueNext ==
    \/ /\ \E b \in GhBatches : GitHubOnChange(b)
       /\ UNCHANGED <<httpVars, sessVars, convVars>>
    \/ /\ \E b \in CalBatches : CalendarOnChange(b)
       /\ UNCHANGED <<httpVars, sessVars, convVars>>
    \/ /\ \E b \in RwBatches : ReadwiseOnChange(b)
       /\ UNCHANGED <<httpVars, sessVars, convVars>>
    \/ /\ \E p \in PostSlots : \E c \in Contents : handleQueueBuild(p, c)
       /\ UNCHANGED <<httpVars, sessVars, convVars>>
    \/ /\ \E p \in PostSlots : handleQueueStore(p)
       /\ UNCHANGED <<httpVars, sessVars, convVars>>
    \/ /\ \E s \in Sessions : handleStreamOpen(s)
       /\ UNCHANGED <<httpVars, sessVars, convVars>>
    \/ /\ \E s \in Sessions : handleStreamTick(s)
       /\ UNCHANGED <<httpVars, sessVars, convVars>>
    \/ /\ \E s \in Sessions : handleStreamEnd(s)
       /\ UNCHANGED <<httpVars, sessVars, convVars>>
    \/ /\ handlePending
       /\ UNCHANGED <<httpVars, sessVars, convVars>>

SpecQueue == QueueInit /\ [][QueueNext]_vars

\* A consumer's pop: the tick of an open /stream session (its ticker fires
\* every 2 s while the handler is in its loop) or a GET /pending.
ConsumerPops ==
    /\ \/ handlePending
       \/ \E s \in Sessions : handleStreamTick(s)
    /\ UNCHANGED <<httpVars, sessVars, convVars>>

\* The consumer keeps coming: it goes on polling /pending or opening
\* sessions whose tickers fire, so a pop that is due is made.
QueueFairness == WF_vars(ConsumerPops)

SpecQueueFair == SpecQueue /\ QueueFairness

----------------------------------------------------------------------------
(* The stores and the upserts of the three sync engines.                   *)

\* s.queue-independent helper: the bbolt bucket with key k set to v.
BucketPut(b, k, v) ==
    [x \in DOMAIN b \cup {k} |-> IF x = k THEN v ELSE b[x]]

\* json.Marshal / json.Unmarshal of a GitHubIssue: every field carries a
\* json tag, so the stored document holds each field of the issue.
MarshalIssue(issue) == [f \in DOMAIN issue |-> issue[f]]
UnmarshalIssue(data) == [f \in DOMAIN data |-> data[f]]

\* needsUpdate (github.go): state, title, then "updated timestamp is newer".
needsUpdateMutantNoTimestamp(old, new) ==
    \/ old.State # new.State
    \/ old.Title # new.Title

needsUpdate(old, new) ==
    \/ old.State # new.State
    \/ old.Title # new.Title
    \/ new.UpdatedAt > old.UpdatedAt

\* GitHubSyncer.upsert, one db.Update transaction: the classification and
\* the bucket it leaves.
GhUpsertMutantPrunes(store, issue) ==
    LET pruned == [k \in DOMAIN store \cap {issue.ID} |-> store[k]]
    IN IF issue.ID \notin DOMAIN store
       THEN [action |-> "created",
             store |-> BucketPut(pruned, issue.ID, MarshalIssue(issue))]
       ELSE IF needsUpdate(UnmarshalIssue(store[issue.ID]), issue)
       THEN [action |-> "updated",
             store |-> BucketPut(pruned, issue.ID, MarshalIssue(issue))]
       ELSE [action |-> "unchanged", store |-> pruned]

GhUpsert(store, issue) ==
    IF issue.ID \notin DOMAIN store
    THEN [action |-> "created",
          store |-> BucketPut(store, issue.ID, MarshalIssue(issue))]
    ELSE LET old == UnmarshalIssue(store[issue.ID])
         IN IF needsUpdate(old, issue)
            THEN [action |-> "updated",
                  store |-> BucketPut(store, issue.ID, MarshalIssue(issue))]
            ELSE [action |-> "unchanged", store |-> store]

\* The verb line of GitHubIssue.ToMarkdown, which queueGitHubChanges calls on
\* the issue alone: GitHubIssue has no verb field and upsert returns only the
\* action, so the verb is a function of the issue's own state.
stateToVerb(state, merged) ==
    IF merged THEN "merged"
    ELSE IF state = "open" THEN "opened"
    ELSE IF state = "closed" THEN "closed"
    ELSE "updated"

GhVerb(issue) == stateToVerb(issue.State, issue.Merged)

\* SyncResult, and the switch of GitHubSyncer.Sync that files an upserted
\* issue under its classification.
EmptyGhResult == [Created |-> <<>>, Updated |-> <<>>, Unchanged |-> 0]

GhCollect(result, issue, action) ==
    CASE action = "created" ->
            [result EXCEPT !.Created = Append(@, issue)]
      [] action = "updated" ->
            [result EXCEPT !.Updated = Append(@, issue)]
      [] action = "unchanged" ->
            [result EXCEPT !.Unchanged = @ + 1]
      [] OTHER -> result

\* doSync: changes := append(result.Created, result.Updated...)
GhChanges(result) == result.Created \o result.Updated

\* A CalendarEvent whose Verb field had an ordinary json tag.
MarshalEventMutantKeepsVerb(event) == [f \in DOMAIN event |-> event[f]]

\* json.Marshal of a CalendarEvent drops Verb (tag json:"-"); Unmarshal
\* leaves it at its zero value.
MarshalEvent(event) == [f \in DOMAIN event \ {"Verb"} |-> event[f]]
UnmarshalEvent(data) ==
    [f \in DOMAIN data \cup {"Verb"} |-> IF f = "Verb" THEN "" ELSE data[f]]

\* A comparison that leaves the location out.
needsCalendarUpdateMutantNoLocation(old, new) ==
    \/ old.Title # new.Title
    \/ old.Start # new.Start
    \/ old.End # new.End
    \/ old.Status # new.Status
    \/ new.UpdatedAt > old.UpdatedAt

\* needsCalendarUpdate (calendar.go).
needsCalendarUpdate(old, new) ==
    \/ old.Title # new.Title
    \/ old.Start # new.Start
    \/ old.End # new.End
    \/ old.Location # new.Location
    \/ old.Status # new.Status
    \/ new.UpdatedAt > old.UpdatedAt

\* CalendarSyncer.upsert, one db.Update transaction.
CalUpsertMutantCancelFirst(store, event) ==
    LET old == IF event.ID \in DOMAIN store
               THEN UnmarshalEvent(store[event.ID]) ELSE [Status |-> ""]
    IN IF event.Status = "cancelled" /\ old.Status # "cancelled"
       THEN [action |-> "cancelled", verb |-> "cancelled",
             store |-> BucketPut(store, event.ID, MarshalEvent(event))]
       ELSE IF event.ID \notin DOMAIN store
       THEN [action |-> "created", verb |-> "created",
             store |-> BucketPut(store, event.ID, MarshalEvent(event))]
       ELSE IF needsCalendarUpdate(old, event)
       THEN [action |-> "updated", verb |-> "updated",
             store |-> BucketPut(store, event.ID, MarshalEvent(event))]
       ELSE [action |-> "unchanged", verb |-> "", store |-> store]

CalUpsertMutantUpdateFirst(store, event) ==
    IF event.ID \notin DOMAIN store
    THEN [action |-> "created", verb |-> "created",
          store |-> BucketPut(store, event.ID, MarshalEvent(event))]
    ELSE LET old == UnmarshalEvent(store[event.ID])
         IN IF needsCalendarUpdate(old, event)
            THEN [action |-> "updated", verb |-> "updated",
                  store |-> BucketPut(store, event.ID, MarshalEvent(event))]
            ELSE IF event.Status = "cancelled" /\ old.Status # "cancelled"
            THEN [action |-> "cancelled", verb |-> "cancelled",
                  store |-> BucketPut(store, event.ID, MarshalEvent(event))]
            ELSE [action |-> "unchanged", verb |-> "", store |-> store]

CalUpsert(store, event) ==
    IF event.ID \notin DOMAIN store
    THEN [action |-> "created", verb |-> "created",
          store |-> BucketPut(store, event.ID, MarshalEvent(event))]
    ELSE LET old == UnmarshalEvent(store[event.ID])
         IN IF event.Status = "cancelled" /\ old.Status # "cancelled"
            THEN [action |-> "cancelled", verb |-> "cancelled",
                  store |-> BucketPut(store, event.ID, MarshalEvent(event))]
            ELSE IF needsCalendarUpdate(old, event)
            THEN [action |-> "updated", verb |-> "updated",
                  store |-> BucketPut(store, event.ID, MarshalEvent(event))]
            ELSE [action |-> "unchanged", verb |-> "", store |-> store]

\* CalendarSyncResult, and the body of CalendarSyncer.Sync's inner loop
\* after upsert: event.Verb = upsertResult.Verb, then the switch.
EmptyCalResult ==
    [Created |-> <<>>, Updated |-> <<>>, Cancelled |-> <<>>, Unchanged |-> 0]

CalCollect(result, event, up) ==
    LET ev == [event EXCEPT !.Verb = up.verb]
    IN CASE up.action = "created" ->
               [result EXCEPT !.Created = Append(@, ev)]
         [] up.action = "updated" ->
               [result EXCEPT !.Updated = Append(@, ev)]
         [] up.action = "cancelled" ->
               [result EXCEPT !.Cancelled = Append(@, ev)]
         [] up.action = "unchanged" ->
               [result EXCEPT !.Unchanged = @ + 1]
         [] OTHER -> result

\* The changes with the cancelled events first.
CalChangesMutantCancelledFirst(result) ==
    result.Cancelled \o result.Created \o result.Updated

\* doSync: changes = Created, then Updated, then Cancelled.
CalChanges(result) == result.Created \o result.Updated \o result.Cancelled

\* CalendarSyncer.ClearCache: every key of the bucket is deleted.
CalClearCacheMutantKeepsAll(store) == store

CalClearCache(store) == [k \in {} |-> store[k]]

\* ReadwiseSyncer.checkIfNew: a db.View of the stored document. `highlights`
\* is the set of the fetched highlights' IDs.
checkIfNewMutantCount(store, docID, highlights) ==
    IF docID \notin DOMAIN store
    THEN [isNew |-> TRUE, hasNewHighlights |-> FALSE]
    ELSE [isNew |-> FALSE,
          hasNewHighlights |->
              Cardinality(highlights) >
                  Cardinality(store[docID].HighlightIDs)]

checkIfNew(store, docID, highlights) ==
    IF docID \notin DOMAIN store
    THEN [isNew |-> TRUE, hasNewHighlights |-> FALSE]
    ELSE [isNew |-> FALSE,
          hasNewHighlights |->
              \E h \in highlights : h \notin store[docID].HighlightIDs]

\* ReadwiseSyncer.storeDocState: the stored document is rebuilt from the
\* fetched highlights and stamped with time.Now().
storeDocState(store, docID, highlights, now) ==
    BucketPut(store, docID, [HighlightIDs |-> highlights, UpdatedAt |-> now])

\* The test of ReadwiseSyncer.Sync that puts a document among the results.
RwEmits(c) == c.isNew \/ c.hasNewHighlights

RwAction(c) ==
    IF c.isNew THEN "created"
    ELSE IF c.hasNewHighlights THEN "updated" ELSE "unchanged"

----------------------------------------------------------------------------
(* The upserts applied one call at a time to arbitrary fetched records.    *)

TimeStamps == {1, 2}
\* convertIssue leaves Merged false; convertPR copies the pull request's, and
\* GitHub reports merged only for a closed pull request.
GhIssues ==
    {i \in [ID : {"github_o_r_1"}, Title : {"a", "b"},
            State : {"open", "closed"}, Merged : BOOLEAN,
            UpdatedAt : TimeStamps] : i.Merged => i.State = "closed"}
\* The events' time ranges are 10-12, 11-12 and 10-13: each of Start and End
\* changes with the other fixed. The location changes with title and time
\* range fixed.
CalEvents ==
    {e \in [ID : {"gcal_e1"}, Title : {"a", "b"}, Start : {10, 11},
            End : {12, 13}, Location : {"", "room"},
            Status : {"confirmed", "cancelled"}, UpdatedAt : TimeStamps,
            Verb : {""}] :
        /\ e.Start = 10 \/ e.End = 12
        /\ e.Location = "room" => (e.Title = "a" /\ e.Start = 10 /\ e.End = 12)}
RwDocIds == {"d1"}
RwHighlightSets == (SUBSET {"h1", "h2"}) \ {{}}

\* One pass of the loop body of GitHubSyncer.Sync over a fetched issue.
GhUpsertCall(issue) ==
    /\ LET up == GhUpsert(ghStore, issue)
           res == GhCollect(EmptyGhResult, issue, up.action)
       IN /\ ghStore' = up.store
          /\ lastCall' = [src |-> "github", rec |-> issue,
                          action |-> up.action,
                          verb |-> IF GhChanges(res) # <<>>
                                   THEN GhVerb(issue) ELSE "",
                          emitted |-> GhChanges(res) # <<>>,
                          flip |-> ~lastCall.flip]
    /\ UNCHANGED <<queueVars, clock, calStore, rwStore, rwLastSync, runs, nRuns,
                   fetchVars>>

\* One pass of the loop body of CalendarSyncer.Sync over a fetched event.
CalUpsertCall(event) ==
    /\ LET up == CalUpsert(calStore, event)
           res == CalCollect(EmptyCalResult, event, up)
       IN /\ calStore' = up.store
          /\ lastCall' = [src |-> "calendar", rec |-> event,
                          afterWipe |-> /\ "wiped" \in DOMAIN lastCall
                                        /\ event.ID \in DOMAIN lastCall.wiped,
                          action |-> up.action, verb |-> up.verb,
                          emitted |-> CalChanges(res) # <<>>,
                          flip |-> ~lastCall.flip]
    /\ UNCHANGED <<queueVars, clock, ghStore, rwStore, rwLastSync, runs, nRuns,
                   fetchVars>>

\* One pass of the loop body of ReadwiseSyncer.Sync over a document that has
\* highlights: checkIfNew, the result test, then storeDocState.
RwUpsertCall(docID, highlights) ==
    /\ LET c == checkIfNew(rwStore, docID, highlights)
       IN \E now \in clock..MaxClock :
            /\ rwStore' = storeDocState(rwStore, docID, highlights, now)
            /\ clock' = now
            /\ lastCall' = [src |-> "readwise",
                            rec |-> [ID |-> docID, Highlights |-> highlights],
                            action |-> RwAction(c),
                            emitted |-> RwEmits(c),
                            flip |-> ~lastCall.flip]
    /\ UNCHANGED <<queueVars, ghStore, calStore, rwLastSync, runs, nRuns,
                   fetchVars>>

\* A resync wipe of the calendar store between two cycles; the history keeps
\* what the bucket held.
CalClearCacheCall ==
    /\ calStore' = CalClearCache(calStore)
    /\ lastCall' = [src |-> "none", flip |-> lastCall.flip,
                    wiped |-> calStore]
    /\ UNCHANGED <<queueVars, clock, ghStore, rwStore, rwLastSync, runs, nRuns,
                   fetchVars>>

UpsertNext ==
    \/ /\ \E issue \in GhIssues : GhUpsertCall(issue)
       /\ UNCHANGED <<httpVars, sessVars, convVars>>
    \/ /\ \E event \in CalEvents : CalUpsertCall(event)
       /\ UNCHANGED <<httpVars, sessVars, convVars>>
    \/ /\ \E d \in RwDocIds : \E hs \in RwHighlightSets : RwUpsertCall(d, hs)
       /\ UNCHANGED <<httpVars, sessVars, convVars>>
    \/ /\ CalClearCacheCall
       /\ UNCHANGED <<httpVars, sessVars, convVars>>

SpecUpsert == QueueInit /\ [][UpsertNext]_vars

----------------------------------------------------------------------------
(* The sync runs: doSync of the GitHub and calendar syncers, and           *)
(* doReadwiseSync, each a goroutine stepping through its Sync.             *)

\* Runs started in one behaviour, over all sources.
MaxRuns == 2

Timer(src) == <<src, "timer">>
Trigger(src) == <<src, "trigger">>
InProgress == {g \in Goroutines : runs[g] # Idle}
CanStart(g) == runs[g] = Idle /\ nRuns < MaxRuns

\* The configured scopes: config.GitHubRepos and config.GoogleCalendars.
GhRepos == <<"o/r", "o/s">>
CalCalendars == <<"primary", "work">>

\* What a fetch of a scope can return in this specification.
RunIssues ==
    {[ID |-> "github_o_r_1", Title |-> "a", State |-> "open",
      Merged |-> FALSE, UpdatedAt |-> 1],
     [ID |-> "github_o_r_1", Title |-> "a", State |-> "closed",
      Merged |-> FALSE, UpdatedAt |-> 2]}
RunEvents ==
    {[ID |-> "gcal_e1", Title |-> "a", Start |-> 10, End |-> 12,
      Location |-> "", Status |-> st, UpdatedAt |-> 1, Verb |-> ""] :
        st \in {"confirmed", "cancelled"}}
\* What syncRepo and syncCalendar can return for a scope: nothing, or one
\* record of that scope. The second repository and calendar hold one record
\* that never changes.
GhFetchesOf(repo) ==
    {<<>>} \cup
    IF repo = "o/r" THEN {<<i>> : i \in RunIssues}
    ELSE {<<[ID |-> "github_o_s_1", Title |-> "a", State |-> "open",
             Merged |-> FALSE, UpdatedAt |-> 1]>>}
CalFetchesOf(calendarID) ==
    {<<>>} \cup
    IF calendarID = "primary" THEN {<<e>> : e \in RunEvents}
    ELSE {<<[ID |-> "gcal_w1", Title |-> "a", Start |-> 10, End |-> 12,
             Location |-> "", Status |-> "confirmed", UpdatedAt |-> 1,
             Verb |-> ""]>>}

RunDocs ==
    {[Document |-> [ID |-> "d1", Title |-> "doc"], Highlights |-> hs] :
        hs \in {{}, {"h1"}, {"h1", "h2"}}}

\* Sync's state at its start: the result is empty, every scope is to come.
\* `expired` tells whether the deadline of the cycle's context has passed.
\* `fetches` is history: per scope gone through, how the API answered and
\* whether the fetch failed; `storeErrs` is history too: how many upserts of
\* the run returned an error; and so is `order`: the records the run filed as
\* changed, with their classification, in the order of their upserts.
NewScopedRun(scopes, emptyResult) ==
    [pc |-> "fetch", scopes |-> scopes, todo |-> <<>>, result |-> emptyResult,
     errors |-> 0, expired |-> FALSE, fetches |-> <<>>, storeErrs |-> 0,
     order |-> <<>>]

\* The switch after upsert, as history: a record classified other than
\* unchanged is one more of the run's changes.
Filed(order, rec, action) ==
    IF action = "unchanged" THEN order
    ELSE Append(order, [rec |-> rec, action |-> action])

\* The outer loop of Sync moves to the next repository or calendar, and
\* Sync returns after the last.
NextScope(run) ==
    LET rest == Tail(run.scopes)
    IN [run EXCEPT !.scopes = rest, !.todo = <<>>,
                   !.pc = IF rest = <<>> THEN "notify" ELSE "fetch"]

\* How the API answers one list request: with the records, with an error, or
\* not before the deadline of the cycle's context.
Answers == {"ok", "error", "hang"}

\* The head of Sync's outer loop body: syncRepo or syncCalendar for the next
\* scope, under the context doSync made for the whole cycle. A request under
\* a context whose deadline has passed fails, whatever the API would answer.
\* An error is appended to result.Errors and the loop continues with the next
\* scope; the records of a fetch that succeeded are upserted.
SyncScope(run, answer, fetched) ==
    LET failed == run.expired \/ answer # "ok"
        seen == [run EXCEPT
                    !.expired = @ \/ answer = "hang",
                    !.fetches = Append(@, [scope |-> Head(run.scopes),
                                           answer |-> answer,
                                           failed |-> failed])]
    IN IF failed THEN NextScope([seen EXCEPT !.errors = @ + 1])
       ELSE IF fetched = <<>> THEN NextScope(seen)
       ELSE [seen EXCEPT !.todo = fetched, !.pc = "upsert"]

\* A run started by a handler of POST /sync/{source}; `resync` is history:
\* whether the request's query carried resync=true.
Triggered(run, resync) ==
    [f \in DOMAIN run \cup {"resync"} |->
        IF f = "resync" THEN resync ELSE run[f]]

\* GitHubSyncer.ClearCache, which handleGitHubSync calls: the bucket emptied.
GhClearCache(store) == [k \in {} |-> store[k]]

\* StartPeriodicSync's goroutine calls doSync: at start, then on each tick.
GhPeriodicSync ==
    /\ CanStart(Timer("github"))
    /\ runs' = [runs EXCEPT ![Timer("github")] =
                   NewScopedRun(GhRepos, EmptyGhResult)]
    /\ nRuns' = nRuns + 1
    /\ UNCHANGED <<queueVars, clock, ghStore, calStore, rwStore, rwLastSync,
                   lastCall, fetchVars>>

\* handleGitHubSync, authorized POST: the optional wipe, then "go doSync".
handleGitHubSync(resync) ==
    /\ CanStart(Trigger("github"))
    /\ ghStore' = IF resync THEN GhClearCache(ghStore) ELSE ghStore
    /\ runs' = [runs EXCEPT ![Trigger("github")] =
                   Triggered(NewScopedRun(GhRepos, EmptyGhResult), resync)]
    /\ nRuns' = nRuns + 1
    /\ UNCHANGED <<queueVars, clock, calStore, rwStore, rwLastSync,
                   lastCall, fetchVars>>

\* Sync calls syncRepo for the next repository: an error is recorded and the
\* loop continues, a result is upserted issue by issue.
GhSyncRepo(g, answer, fetched) ==
    /\ g[1] = "github" /\ runs[g] # Idle /\ runs[g].pc = "fetch"
    /\ fetched \in GhFetchesOf(Head(runs[g].scopes))
    /\ runs' = [runs EXCEPT ![g] = SyncScope(@, answer, fetched)]
    /\ UNCHANGED <<queueVars, clock, ghStore, calStore, rwStore, rwLastSync,
                   nRuns, lastCall, fetchVars>>

\* Sync upserts the next fetched issue and files it by its classification.
\* When upsert returns an error (json.Marshal, json.Unmarshal or the
\* transaction failed) db.Update has rolled the transaction back; Sync appends
\* the error to result.Errors and continues with the next issue.
GhSyncUpsert(g, failed) ==
    /\ g[1] = "github" /\ runs[g] # Idle /\ runs[g].pc = "upsert"
    /\ LET issue == Head(runs[g].todo)
           up == GhUpsert(ghStore, issue)
           run == IF failed
                  THEN [runs[g] EXCEPT
                           !.errors = @ + 1,
                           !.storeErrs = @ + 1,
                           !.todo = Tail(@)]
                  ELSE [runs[g] EXCEPT
                           !.result = GhCollect(@, issue, up.action),
                           !.order = Filed(@, issue, up.action),
                           !.todo = Tail(@)]
       IN /\ ghStore' = IF failed THEN ghStore ELSE up.store
          /\ runs' = [runs EXCEPT ![g] =
                IF run.todo = <<>> THEN NextScope(run) ELSE run]
    /\ UNCHANGED <<queueVars, clock, calStore, rwStore, rwLastSync, nRuns,
                   lastCall, fetchVars>>

\* doSync after Sync: onChange(changes) unless there are none.
GhDoSyncNotify(g) ==
    /\ g[1] = "github" /\ runs[g] # Idle /\ runs[g].pc = "notify"
    /\ LET changes == GhChanges(runs[g].result)
       IN IF changes # <<>> THEN queueGitHubChanges(changes)
          ELSE UNCHANGED <<queue, clock, nEnq>>
    /\ runs' = [runs EXCEPT ![g] = Idle]
    /\ UNCHANGED <<delivered, lastPop, streams, posting, ghStore, calStore,
                   rwStore, rwLastSync, nRuns, lastCall, fetchVars>>

\* The calendar syncer's StartPeriodicSync goroutine calls doSync.
CalPeriodicSync ==
    /\ CanStart(Timer("calendar"))
    /\ runs' = [runs EXCEPT ![Timer("calendar")] =
                   NewScopedRun(CalCalendars, EmptyCalResult)]
    /\ nRuns' = nRuns + 1
    /\ UNCHANGED <<queueVars, clock, ghStore, calStore, rwStore, rwLastSync,
                   lastCall, fetchVars>>

\* handleCalendarSync, authorized POST: the optional wipe, then "go doSync".
handleCalendarSync(resync) ==
    /\ CanStart(Trigger("calendar"))
    /\ calStore' = IF resync THEN CalClearCache(calStore) ELSE calStore
    /\ runs' = [runs EXCEPT ![Trigger("calendar")] =
                   Triggered(NewScopedRun(CalCalendars, EmptyCalResult),
                             resync)]
    /\ nRuns' = nRuns + 1
    /\ UNCHANGED <<queueVars, clock, ghStore, rwStore, rwLastSync,
                   lastCall, fetchVars>>

\* Sync calls syncCalendar for the next calendar.
CalSyncCalendar(g, answer, fetched) ==
    /\ g[1] = "calendar" /\ runs[g] # Idle /\ runs[g].pc = "fetch"
    /\ fetched \in CalFetchesOf(Head(runs[g].scopes))
    /\ runs' = [runs EXCEPT ![g] = SyncScope(@, answer, fetched)]
    /\ UNCHANGED <<queueVars, clock, ghStore, calStore, rwStore, rwLastSync,
                   nRuns, lastCall, fetchVars>>

\* Sync upserts the next fetched event, sets its Verb and files it.
CalSyncUpsert(g, failed) ==
    /\ g[1] = "calendar" /\ runs[g] # Idle /\ runs[g].pc = "upsert"
    /\ LET event == Head(runs[g].todo)
           up == CalUpsert(calStore, event)
           run == IF failed
                  THEN [runs[g] EXCEPT
                           !.errors = @ + 1,
                           !.storeErrs = @ + 1,
                           !.todo = Tail(@)]
                  ELSE [runs[g] EXCEPT
                           !.result = CalCollect(@, event, up),
                           !.order = Filed(@, [event EXCEPT !.Verb = up.verb],
                                           up.action),
                           !.todo = Tail(@)]
       IN /\ calStore' = IF failed THEN calStore ELSE up.store
          /\ runs' = [runs EXCEPT ![g] =
                IF run.todo = <<>> THEN NextScope(run) ELSE run]
    /\ UNCHANGED <<queueVars, clock, ghStore, rwStore, rwLastSync, nRuns,
                   lastCall, fetchVars>>

\* doSync after Sync: onChange(changes) unless there are none.
CalDoSyncNotify(g) ==
    /\ g[1] = "calendar" /\ runs[g] # Idle /\ runs[g].pc = "notify"
    /\ LET changes == CalChanges(runs[g].result)
       IN IF changes # <<>> THEN queueCalendarChanges(changes)
          ELSE UNCHANGED <<queue, clock, nEnq>>
    /\ runs' = [runs EXCEPT ![g] = Idle]
    /\ UNCHANGED <<delivered, lastPop, streams, posting, ghStore, calStore,
                   rwStore, rwLastSync, nRuns, lastCall, fetchVars>>

\* ReadwiseSyncer.Sync at its start; `storeErrs` is history: how many calls
\* of storeDocState failed to write.
NewReadwiseRun ==
    [pc |-> "fetch", todo |-> <<>>, results |-> <<>>,
     check |-> [isNew |-> FALSE, hasNewHighlights |-> FALSE],
     storeErrs |-> 0, waits |-> 0, began |-> 0]

\* startReadwiseSync calls doReadwiseSync: after the delay, then on each tick.
RwPeriodicSync ==
    /\ CanStart(Timer("readwise"))
    /\ runs' = [runs EXCEPT ![Timer("readwise")] = NewReadwiseRun]
    /\ nRuns' = nRuns + 1
    /\ UNCHANGED <<queueVars, clock, ghStore, calStore, rwStore, rwLastSync,
                   lastCall, fetchVars>>

\* handleReadwiseSync, authorized POST: "go s.doReadwiseSync()". The handler
\* does not read the request's query.
handleReadwiseSync(resync) ==
    /\ CanStart(Trigger("readwise"))
    /\ runs' = [runs EXCEPT ![Trigger("readwise")] =
                   Triggered(NewReadwiseRun, resync)]
    /\ nRuns' = nRuns + 1
    /\ UNCHANGED <<queueVars, clock, ghStore, calStore, rwStore, rwLastSync,
                   lastCall, fetchVars>>

\* Sync reads last_sync and calls fetchAll. An error ends the run; of the
\* documents fetched, those with at least one highlight are gone through.
\* `began` is history: the clock when fetchAll was called.
RwFetchAll(g, failed, fetched) ==
    /\ g[1] = "readwise" /\ runs[g] # Idle /\ runs[g].pc = "fetch"
    /\ runs' = [runs EXCEPT ![g] =
          IF failed THEN Idle
          ELSE LET withHighlights ==
                       SelectSeq(fetched, LAMBDA d : d.Highlights # {})
               IN [@ EXCEPT !.todo = withHighlights,
                            !.began = clock,
                            !.pc = IF withHighlights = <<>> THEN "mark"
                                   ELSE "check"]]
    /\ UNCHANGED <<queueVars, clock, ghStore, calStore, rwStore, rwLastSync,
                   nRuns, lastCall, fetchVars>>

\* fetchAll gets status 429: it sleeps for Retry-After (60 s without one) and
\* sends the same request again. `waits` is the number of such responses of
\* the run so far, modulo 2.
RwRateLimited(g) ==
    /\ g[1] = "readwise" /\ runs[g] # Idle /\ runs[g].pc = "fetch"
    /\ runs' = [runs EXCEPT ![g] = [@ EXCEPT !.waits = 1 - @]]
    /\ UNCHANGED <<queueVars, clock, ghStore, calStore, rwStore, rwLastSync,
                   nRuns, lastCall, fetchVars>>

\* Sync calls checkIfNew for the next document (a db.View).
RwCheckIfNew(g) ==
    /\ g[1] = "readwise" /\ runs[g] # Idle /\ runs[g].pc = "check"
    /\ LET d == Head(runs[g].todo)
       IN runs' = [runs EXCEPT ![g] =
             [@ EXCEPT !.check = checkIfNew(rwStore, d.Document.ID,
                                            d.Highlights),
                       !.pc = "store"]]
    /\ UNCHANGED <<queueVars, clock, ghStore, calStore, rwStore, rwLastSync,
                   nRuns, lastCall, fetchVars>>

\* Sync appends the document to its results if new or with new highlights,
\* then calls storeDocState (a db.Update), whose error it does not look at:
\* when the write fails the bucket is as before and Sync goes on as after a
\* write that succeeded.
RwStoreDocState(g, failed) ==
    /\ g[1] = "readwise" /\ runs[g] # Idle /\ runs[g].pc = "store"
    /\ LET d == Head(runs[g].todo)
           c == runs[g].check
           rest == Tail(runs[g].todo)
       IN /\ runs' = [runs EXCEPT ![g] =
                [@ EXCEPT !.results =
                              IF RwEmits(c)
                              THEN Append(@, [Document |-> d.Document,
                                              Highlights |-> d.Highlights,
                                              IsNew |-> c.isNew])
                              ELSE @,
                          !.storeErrs = IF failed THEN @ + 1 ELSE @,
                          !.todo = rest,
                          !.pc = IF rest = <<>> THEN "mark" ELSE "check"]]
          /\ \E now \in clock..MaxClock :
                /\ rwStore' = IF failed THEN rwStore
                              ELSE storeDocState(rwStore, d.Document.ID,
                                                 d.Highlights, now)
                /\ clock' = now
    /\ UNCHANGED <<queueVars, ghStore, calStore, rwLastSync, nRuns,
                   lastCall, fetchVars>>

\* Sync writes last_sync = time.Now() and returns its results.
RwMarkSynced(g) ==
    /\ g[1] = "readwise" /\ runs[g] # Idle /\ runs[g].pc = "mark"
    /\ \E now \in clock..MaxClock :
          /\ rwLastSync' = now
          /\ clock' = now
    /\ runs' = [runs EXCEPT ![g] = [@ EXCEPT !.pc = "notify"]]
    /\ UNCHANGED <<queueVars, ghStore, calStore, rwStore, nRuns,
                   lastCall, fetchVars>>

\* doReadwiseSync after Sync: nothing to do without documents, else one
\* queue item per document under s.mu.
RwDoSyncNotify(g) ==
    /\ g[1] = "readwise" /\ runs[g] # Idle /\ runs[g].pc = "notify"
    /\ LET docs == runs[g].results
       IN IF docs # <<>> THEN queueReadwiseChanges(docs)
          ELSE UNCHANGED <<queue, clock, nEnq>>
    /\ runs' = [runs EXCEPT ![g] = Idle]
    /\ UNCHANGED <<delivered, lastPop, streams, posting, ghStore, calStore,
                   rwStore, rwLastSync, nRuns, lastCall, fetchVars>>

RunsNext ==
    \/ /\ GhPeriodicSync
       /\ UNCHANGED <<httpVars, sessVars, convVars>>
    \/ /\ \E resync \in BOOLEAN : handleGitHubSync(resync)
       /\ UNCHANGED <<httpVars, sessVars, convVars>>
    \/ /\ \E g \in Goroutines, answer \in Answers :
             \E f \in UNION {GhFetchesOf(GhRepos[i]) : i \in 1..Len(GhRepos)} :
                 GhSyncRepo(g, answer, f)
       /\ UNCHANGED <<httpVars, sessVars, convVars>>
    \/ /\ \E g \in Goroutines, failed \in BOOLEAN : GhSyncUpsert(g, failed)
       /\ UNCHANGED <<httpVars, sessVars, convVars>>
    \/ /\ \E g \in Goroutines : GhDoSyncNotify(g)
       /\ UNCHANGED <<httpVars, sessVars, convVars>>
    \/ /\ CalPeriodicSync
       /\ UNCHANGED <<httpVars, sessVars, convVars>>
    \/ /\ \E resync \in BOOLEAN : handleCalendarSync(resync)
       /\ UNCHANGED <<httpVars, sessVars, convVars>>
    \/ /\ \E g \in Goroutines, answer \in Answers :
             \E f \in UNION {CalFetchesOf(CalCalendars[i]) :
                                i \in 1..Len(CalCalendars)} :
                 CalSyncCalendar(g, answer, f)
       /\ UNCHANGED <<httpVars, sessVars, convVars>>
    \/ /\ \E g \in Goroutines, failed \in BOOLEAN : CalSyncUpsert(g, failed)
       /\ UNCHANGED <<httpVars, sessVars, convVars>>
    \/ /\ \E g \in Goroutines : CalDoSyncNotify(g)
       /\ UNCHANGED <<httpVars, sessVars, convVars>>
    \/ /\ RwPeriodicSync
       /\ UNCHANGED <<httpVars, sessVars, convVars>>
    \/ /\ \E resync \in BOOLEAN : handleReadwiseSync(resync)
       /\ UNCHANGED <<httpVars, sessVars, convVars>>
    \/ /\ \E g \in Goroutines, failed \in BOOLEAN :
             \E f \in {<<d>> : d \in RunDocs} \cup {<<>>} :
                 RwFetchAll(g, failed, f)
       /\ UNCHANGED <<httpVars, sessVars, convVars>>
    \/ /\ \E g \in Goroutines : RwRateLimited(g)
       /\ UNCHANGED <<httpVars, sessVars, convVars>>
    \/ /\ \E g \in Goroutines : RwCheckIfNew(g)
       /\ UNCHANGED <<httpVars, sessVars, convVars>>
    \/ /\ \E g \in Goroutines, failed \in BOOLEAN : RwStoreDocState(g, failed)
       /\ UNCHANGED <<httpVars, sessVars, convVars>>
    \/ /\ \E g \in Goroutines : RwMarkSynced(g)
       /\ UNCHANGED <<httpVars, sessVars, convVars>>
    \/ /\ \E g \in Goroutines : RwDoSyncNotify(g)
       /\ UNCHANGED <<httpVars, sessVars, convVars>>

SpecRuns == QueueInit /\ [][RunsNext]_vars

\* One step of the goroutine of run g, whatever the services answer.
RunStep(g) ==
    /\ \/ \E answer \in Answers :
             \E f \in UNION {GhFetchesOf(GhRepos[i]) : i \in 1..Len(GhRepos)} :
                 GhSyncRepo(g, answer, f)
       \/ \E failed \in BOOLEAN : GhSyncUpsert(g, failed)
       \/ GhDoSyncNotify(g)
       \/ \E answer \in Answers :
             \E f \in UNION {CalFetchesOf(CalCalendars[i]) :
                                i \in 1..Len(CalCalendars)} :
                 CalSyncCalendar(g, answer, f)
       \/ \E failed \in BOOLEAN : CalSyncUpsert(g, failed)
       \/ CalDoSyncNotify(g)
       \/ \E failed \in BOOLEAN :
             \E f \in {<<d>> : d \in RunDocs} \cup {<<>>} :
                 RwFetchAll(g, failed, f)
       \/ RwRateLimited(g)
       \/ RwCheckIfNew(g)
       \/ \E failed \in BOOLEAN : RwStoreDocState(g, failed)
       \/ RwMarkSynced(g)
       \/ RwDoSyncNotify(g)
    /\ UNCHANGED <<httpVars, sessVars, convVars>>

\* The scheduler runs every goroutine that can take a step; what the services
\* answer is not up to it.
RunsFairness == \A g \in Goroutines : WF_vars(RunStep(g))

SpecRunsFair == SpecRuns /\ RunsFairness

----------------------------------------------------------------------------
(* The adapters' fetches: syncRepo, syncCalendar and fetchAll against what *)
(* the services list.                                                      *)

\* Records a service lists for the configured scope.
MaxUpstream == 3
\* The page length the adapters ask for: ListOptions{PerPage: 100} and
\* MaxResults(100) in the code, scaled down with MaxUpstream above it.
PerPage == 2

\* The listings of up to MaxUpstream records, numbered in listing order, each
\* of one of the given kinds.
Listings(kinds) ==
    UNION {{[i \in 1..n |-> [num |-> i, kind |-> f[i]]] :
               f \in [1..n -> kinds]} : n \in 0..MaxUpstream}

FetchFailed == [ok |-> FALSE, records |-> <<>>]

\* One request of a paged listing from an offset: the page's items and the
\* offset of the next page (0: there is none).
ListPage(listing, offset) ==
    LET last == IF offset + PerPage < Len(listing)
                THEN offset + PerPage ELSE Len(listing)
    IN [items |-> SubSeq(listing, offset + 1, last),
        next |-> IF last < Len(listing) THEN last ELSE 0]

\* syncRepo: one Issues.ListByRepo request, whose listing holds the pull
\* requests too (they are skipped), then one PullRequests.List request; the
\* responses' next-page fields are dropped ("_").
syncRepo(listing, failIssues, failPulls) ==
    LET ghIssues == ListPage(listing, 0).items
        prs == ListPage(SelectSeq(listing,
                   LAMBDA r : r.kind = "pull_request"), 0).items
    IN IF failIssues \/ failPulls THEN FetchFailed
       ELSE [ok |-> TRUE,
             records |-> SelectSeq(ghIssues,
                             LAMBDA r : r.kind # "pull_request") \o prs]

\* syncCalendar: one Events.List request with MaxResults(100).
syncCalendar(listing, failed) ==
    IF failed THEN FetchFailed
    ELSE [ok |-> TRUE, records |-> ListPage(listing, 0).items]

\* fetchAll: requests follow NextPageCursor until it is empty; a request that
\* fails fails the fetch. failAt is the request that fails (0: none).
RECURSIVE fetchAllFrom(_, _, _, _, _, _)
fetchAllFrom(listing, pageCursor, request, failAt, docs, highlights) ==
    IF request = failAt THEN FetchFailed
    ELSE LET page == ListPage(listing, pageCursor)
             ds == docs \o SelectSeq(page.items,
                                     LAMBDA r : r.kind # "highlight")
             hs == highlights \o SelectSeq(page.items,
                                           LAMBDA r : r.kind = "highlight")
         IN IF page.next = 0 THEN [ok |-> TRUE, records |-> ds \o hs]
            ELSE fetchAllFrom(listing, page.next, request + 1, failAt, ds, hs)

fetchAll(listing, failAt) == fetchAllFrom(listing, 0, 1, failAt, <<>>, <<>>)

\* fetchAll against a service that answers the requests, in order, as
\* `answers` says and with the page asked for after that: status 429 is
\* waited out and the same request sent again; a network error or any other
\* status but 200 ends fetchAll with the error.
Transient == {"429", "500", "neterr"}
AnswerScripts ==
    {<<>>} \cup {<<a>> : a \in Transient \cup {"200"}}
           \cup {<<a, b>> : a \in Transient \cup {"200"}, b \in Transient}

RECURSIVE fetchAllAnswered(_, _, _, _, _)
fetchAllAnswered(listing, pageCursor, answers, docs, highlights) ==
    LET answer == IF answers = <<>> THEN "200" ELSE Head(answers)
        rest == IF answers = <<>> THEN <<>> ELSE Tail(answers)
        page == ListPage(listing, pageCursor)
        ds == docs \o SelectSeq(page.items, LAMBDA r : r.kind # "highlight")
        hs == highlights \o SelectSeq(page.items,
                                      LAMBDA r : r.kind = "highlight")
    IN CASE answer = "429" ->
               fetchAllAnswered(listing, pageCursor, rest, docs, highlights)
         [] answer = "200" ->
               IF page.next = 0 THEN [ok |-> TRUE, records |-> ds \o hs]
               ELSE fetchAllAnswered(listing, page.next, rest, ds, hs)
         [] OTHER -> FetchFailed

\* A fetch of each adapter against the service's current listing.
GhFetch(failIssues, failPulls) ==
    /\ lastFetch' = [src |-> "github"] @@
                      syncRepo(upstream["github"], failIssues, failPulls)
    /\ UNCHANGED <<queueVars, clock, ghStore, calStore, rwStore, rwLastSync,
                   runs, nRuns, lastCall, upstream>>

CalFetch(failed) ==
    /\ lastFetch' = [src |-> "calendar"] @@
                      syncCalendar(upstream["calendar"], failed)
    /\ UNCHANGED <<queueVars, clock, ghStore, calStore, rwStore, rwLastSync,
                   runs, nRuns, lastCall, upstream>>

RwFetch(failAt) ==
    /\ lastFetch' = [src |-> "readwise"] @@
                      fetchAll(upstream["readwise"], failAt)
    /\ UNCHANGED <<queueVars, clock, ghStore, calStore, rwStore, rwLastSync,
                   runs, nRuns, lastCall, upstream>>

RwFetchAnswered(answers) ==
    /\ lastFetch' = [src |-> "readwise", answers |-> answers] @@
                      fetchAllAnswered(upstream["readwise"], 0, answers,
                                       <<>>, <<>>)
    /\ UNCHANGED <<queueVars, clock, ghStore, calStore, rwStore, rwLastSync,
                   runs, nRuns, lastCall, upstream>>

FetchInit ==
    /\ queue = <<>>
    /\ clock = ClockBase
    /\ nEnq = 0
    /\ delivered = <<>>
    /\ lastPop = NoItem
    /\ streams = {}
    /\ posting = [p \in PostSlots |-> Idle]
    /\ ghStore = <<>>
    /\ calStore = <<>>
    /\ rwStore = <<>>
    /\ rwLastSync = 0
    /\ runs = [g \in Goroutines |-> Idle]
    /\ nRuns = 0
    /\ lastCall = NoCall
    /\ \E gh \in Listings({"issue", "pull_request"}) :
       \E cal \in Listings({"event"}) :
       \E rw \in Listings({"document", "highlight"}) :
           upstream = [src \in Sources |->
                          CASE src = "github" -> gh
                            [] src = "calendar" -> cal
                            [] src = "readwise" -> rw]
    /\ lastFetch = [src |-> "none"]
    /\ lastResp = NoResp
    /\ signals = [s \in Sessions |-> NoSignals]
    /\ converted = NoneConverted

FetchNext ==
    \/ /\ \E failIssues \in BOOLEAN, failPulls \in BOOLEAN :
             GhFetch(failIssues, failPulls)
       /\ UNCHANGED <<httpVars, sessVars, convVars>>
    \/ /\ \E failed \in BOOLEAN : CalFetch(failed)
       /\ UNCHANGED <<httpVars, sessVars, convVars>>
    \/ /\ \E failAt \in 0..MaxUpstream : RwFetch(failAt)
       /\ UNCHANGED <<httpVars, sessVars, convVars>>
    \/ /\ \E answers \in AnswerScripts : RwFetchAnswered(answers)
       /\ UNCHANGED <<httpVars, sessVars, convVars>>

SpecFetch == FetchInit /\ [][FetchNext]_vars

----------------------------------------------------------------------------
(* The HTTP layer: corsMiddleware, the method and token checks at the head *)
(* of each handler, and handleQueue's decoding of the request body.        *)

\* Items the requests of one behaviour put into the queue.
MaxPosts == 1

\* Tokens and header values are sequences of characters, so that
\* strings.TrimPrefix is computed. ServerToken is Server.token; WrongToken
\* is any other token.
ServerToken == <<"k">>
WrongToken == <<"x">>
Bearer == <<"B", "e", "a", "r", "e", "r", " ">>

\* strings.TrimPrefix(s, prefix).
TrimPrefix(s, prefix) ==
    IF Len(s) >= Len(prefix) /\ SubSeq(s, 1, Len(prefix)) = prefix
    THEN SubSeq(s, Len(prefix) + 1, Len(s))
    ELSE s

\* checkAuth: the Authorization header less a leading "Bearer ", or the token
\* query parameter when that is empty, must equal s.token.
checkAuthMutantQueryWins(r) ==
    LET token == TrimPrefix(r.header, Bearer)
    IN r.query = ServerToken \/ token = ServerToken

checkAuth(r) ==
    LET authHeader == r.header
        token == TrimPrefix(authHeader, Bearer)
    IN (IF token = <<>> THEN r.query ELSE token) = ServerToken

\* The requests: a method, the Authorization header ("" when absent) and the
\* token query parameter ("" when absent).
Req(method, header, query) ==
    [method |-> method, header |-> header, query |-> query]
Requests ==
    {Req("POST", <<>>, ServerToken),
     Req("POST", <<>>, WrongToken),
     Req("POST", Bearer \o ServerToken, <<>>),
     Req("POST", Bearer \o WrongToken, ServerToken),
     Req("POST", Bearer, ServerToken),
     Req("POST", ServerToken, <<>>),
     Req("GET", <<>>, ServerToken),
     Req("GET", <<>>, WrongToken),
     Req("OPTIONS", <<>>, WrongToken)}

\* The bodies of a POST /queue as json.NewDecoder(r.Body).Decode(&req) sees
\* them: "malformed" holds no JSON value that fits a QueueItem at its start;
\* "object" is one JSON object; "objectThenData" is a JSON object followed by
\* further bytes, which Decode, reading one value, never looks at.
Bodies ==
    {b \in [json : {"malformed", "object", "objectThenData"},
            content : {"", "note"}] :
        b.json = "malformed" => b.content = ""}
DecodeFails(body) == body.json = "malformed"

\* The status a request is answered with before the handler's own work:
\* corsMiddleware answers OPTIONS with 200; a handler that is "POST only"
\* answers another method with 405; a failed checkAuth is answered 401.
\* 0: none of these, the handler goes on.
HeadStatus(postOnly, r) ==
    IF r.method = "OPTIONS" THEN 200
    ELSE IF postOnly /\ r.method # "POST" THEN 405
    ELSE IF ~checkAuth(r) THEN 401
    ELSE 0

serverVars == <<queueVars, clock, storeVars, lastCall>>

Respond(endpoint, r, status) ==
    lastResp' = [endpoint |-> endpoint,
                 method |-> r.method, header |-> r.header,
                 query |-> r.query, status |-> status]

\* handleQueue up to the point where req.ID is built.
ServeQueue(r, body, p) ==
    LET head == HeadStatus(TRUE, r)
        status == IF head # 0 THEN head
                  ELSE IF DecodeFails(body) THEN 400
                  ELSE IF body.content = "" THEN 400
                  ELSE 200
    IN /\ lastResp' = [endpoint |-> "/queue",
                       method |-> r.method, header |-> r.header,
                       query |-> r.query, status |-> status,
                       body |-> body]
       /\ IF head = 0 /\ status = 200
          THEN handleQueueBuild(p, body.content)
          ELSE UNCHANGED serverVars

\* handleStream up to its loop.
ServeStream(r, s) ==
    LET head == HeadStatus(FALSE, r)
    IN /\ Respond("/stream", r, IF head # 0 THEN head ELSE 200)
       /\ IF head = 0 THEN handleStreamOpen(s) ELSE UNCHANGED serverVars

\* handlePending: 204 when popOldest returns nil.
ServePending(r) ==
    LET head == HeadStatus(FALSE, r)
    IN /\ Respond("/pending", r,
                  IF head # 0 THEN head
                  ELSE IF popOldest(queue).item = NoItem THEN 204 ELSE 200)
       /\ IF head = 0 THEN handlePending ELSE UNCHANGED serverVars

\* handlePeek: the items are copied under RLock and listed.
handlePeek(r) ==
    LET head == HeadStatus(FALSE, r)
    IN /\ lastResp' = [endpoint |-> "/peek", method |-> r.method,
                       header |-> r.header, query |-> r.query,
                       status |-> IF head # 0 THEN head ELSE 200,
                       peek |-> IF head # 0 THEN peekResponse(<<>>)
                                ELSE peekResponse(queue)]
       /\ UNCHANGED serverVars

\* The handlers of POST /sync/{source}, every syncer configured; the
\* behaviours of SpecHttp ask for a resync.
ServeGitHubSync(r, resync) ==
    LET head == HeadStatus(TRUE, r)
    IN /\ Respond("/sync/github", r, IF head # 0 THEN head ELSE 200)
       /\ IF head = 0 THEN handleGitHubSync(resync)
          ELSE UNCHANGED serverVars

ServeCalendarSync(r, resync) ==
    LET head == HeadStatus(TRUE, r)
    IN /\ Respond("/sync/calendar", r, IF head # 0 THEN head ELSE 200)
       /\ IF head = 0 THEN handleCalendarSync(resync)
          ELSE UNCHANGED serverVars

ServeReadwiseSync(r, resync) ==
    LET head == HeadStatus(TRUE, r)
    IN /\ Respond("/sync/readwise", r, IF head # 0 THEN head ELSE 200)
       /\ IF head = 0 THEN handleReadwiseSync(resync)
          ELSE UNCHANGED serverVars

\* The server with stores that earlier cycles have filled.
HttpInit ==
    /\ queue = <<>>
    /\ clock = ClockBase
    /\ nEnq = 0
    /\ delivered = <<>>
    /\ lastPop = NoItem
    /\ streams = {}
    /\ posting = [p \in PostSlots |-> Idle]
    /\ ghStore = GhUpsert(<<>>, CHOOSE i \in RunIssues : i.State = "open").store
    /\ calStore =
          CalUpsert(<<>>, CHOOSE e \in RunEvents : e.Status = "confirmed").store
    /\ rwStore = storeDocState(<<>>, "d1", {"h1"}, ClockBase)
    /\ rwLastSync = ClockBase
    /\ runs = [g \in Goroutines |-> Idle]
    /\ nRuns = 0
    /\ lastCall = NoCall
    /\ upstream = [src \in Sources |-> <<>>]
    /\ lastFetch = [src |-> "none"]
    /\ lastResp = NoResp
    /\ signals = [s \in Sessions |-> NoSignals]
    /\ converted = NoneConverted

HttpNext ==
    \/ /\ \E r \in Requests, body \in Bodies, p \in PostSlots :
             nEnq < MaxPosts /\ ServeQueue(r, body, p)
       /\ UNCHANGED <<sessVars, convVars>>
    \/ /\ \E p \in PostSlots : handleQueueStore(p)
       /\ UNCHANGED <<httpVars, sessVars, convVars>>
    \/ /\ \E r \in Requests : ServeStream(r, "s1")
       /\ UNCHANGED <<sessVars, convVars>>
    \/ /\ \E r \in Requests : ServePending(r)
       /\ UNCHANGED <<sessVars, convVars>>
    \/ /\ \E r \in Requests : handlePeek(r)
       /\ UNCHANGED <<sessVars, convVars>>
    \/ /\ \E r \in Requests : ServeGitHubSync(r, TRUE)
       /\ UNCHANGED <<sessVars, convVars>>
    \/ /\ \E r \in Requests : ServeCalendarSync(r, TRUE)
       /\ UNCHANGED <<sessVars, convVars>>
    \/ /\ \E r \in Requests : ServeReadwiseSync(r, TRUE)
       /\ UNCHANGED <<sessVars, convVars>>

SpecHttp == HttpInit /\ [][HttpNext]_vars

-----------------------------------------------------------------------------
(* The /stream session in detail: handleStream's select over ticker.C,     *)
(* the 25 s timer and the request context.                                 *)
(*                                                                         *)
(* signals[s] holds what is ready for session s: tick (ticker.C holds a    *)
(* value), timeout (the timer's channel holds its value), done (the        *)
(* request context is cancelled).  fired counts the ticker's firings, so   *)
(* the timer can be placed after the last tick within the window; popped   *)
(* counts the items the session has popped.  A select with several ready   *)
(* cases takes any one of them.                                            *)

\* time.After(25 s) over time.NewTicker(2 s): the ticks that fire before the
\* timer does (twelve in the code, scaled).
WindowTicks == 2

\* Ticks of the ticker after the timer fired, while the handler has not
\* returned yet.
MaxLateTicks == 1

\* handleStream up to the loop: the session starts with nothing ready.
StreamOpen(s) ==
    /\ handleStreamOpen(s)
    /\ signals' = [signals EXCEPT ![s] = NoSignals]
    /\ UNCHANGED <<httpVars, convVars>>

\* The runtime's ticker fires: ticker.C has room for one value, a tick that
\* finds it full is dropped.  Ticks beyond the window come after the timer.
TickerFires(s) ==
    /\ s \in streams
    /\ signals[s].fired < WindowTicks + MaxLateTicks
    /\ signals[s].fired >= WindowTicks => signals[s].timeout
    /\ signals' = [signals EXCEPT ![s].tick = TRUE,
                                  ![s].fired = signals[s].fired + 1]
    /\ UNCHANGED <<serverVars, httpVars, convVars>>

\* A timer armed anew at every pass of the loop: it fires only when no tick
\* comes first.
TimeoutFiresMutantRearmed(s) ==
    /\ s \in streams
    /\ signals[s].fired = 0
    /\ ~signals[s].timeout
    /\ signals' = [signals EXCEPT ![s].timeout = TRUE]
    /\ UNCHANGED <<serverVars, httpVars, convVars>>

\* The runtime's timer fires, once, after the window's ticks.
TimeoutFires(s) ==
    /\ s \in streams
    /\ signals[s].fired >= WindowTicks
    /\ ~signals[s].timeout
    /\ signals' = [signals EXCEPT ![s].timeout = TRUE]
    /\ UNCHANGED <<serverVars, httpVars, convVars>>

\* The client goes away: net/http cancels r.Context().
ClientDisconnects(s) ==
    /\ s \in streams
    /\ ~signals[s].done
    /\ signals' = [signals EXCEPT ![s].done = TRUE]
    /\ UNCHANGED <<serverVars, httpVars, convVars>>

\* select takes case <-ticker.C: popOldest, then the item or a heartbeat.
StreamTick(s) ==
    /\ signals[s].tick
    /\ handleStreamTick(s)
    /\ signals' = [signals EXCEPT
                     ![s].tick = FALSE,
                     ![s].popped = IF lastPop' # NoItem
                                   THEN signals[s].popped + 1
                                   ELSE signals[s].popped]
    /\ UNCHANGED <<httpVars, convVars>>

\* select takes case <-timeout or case <-r.Context().Done(): return.
StreamEnd(s) ==
    /\ signals[s].timeout \/ signals[s].done
    /\ handleStreamEnd(s)
    /\ UNCHANGED <<httpVars, sessVars, convVars>>

\* The sessions followed through their select; any other consumer of the
\* queue acts through handlePending.
Watched == {"s1"}

StreamNext ==
    \/ /\ \E b \in GhBatches : Len(b) = 1 /\ GitHubOnChange(b)
       /\ UNCHANGED <<httpVars, sessVars, convVars>>
    \/ /\ handlePending
       /\ UNCHANGED <<httpVars, sessVars, convVars>>
    \/ \E s \in Watched : StreamOpen(s)
    \/ \E s \in Watched : TickerFires(s)
    \/ \E s \in Watched : TimeoutFires(s)
    \/ \E s \in Watched : ClientDisconnects(s)
    \/ \E s \in Watched : StreamTick(s)
    \/ \E s \in Watched : StreamEnd(s)

SpecStream == QueueInit /\ [][StreamNext]_vars

\* The timers of the runtime fire as time passes, and a select whose return
\* case stays ready takes it: its choice among ready cases is uniformly
\* random, so a case that is ready at every pass is not passed over forever.
StreamFairness ==
    \A s \in Watched : /\ WF_vars(TickerFires(s))
                        /\ WF_vars(TimeoutFires(s))
                        /\ WF_vars(StreamEnd(s))

SpecStreamFair == SpecStream /\ StreamFairness

-----------------------------------------------------------------------------
(* The conversion of fetched records: convertIssue, convertPR and          *)
(* convertEvent build the stored record and its identifier from what the   *)
(* API returned; a Readwise document is stored under the id the API gave.  *)
(* Repository names and remote ids are byte sequences, so that the         *)
(* identifier is computed.                                                 *)

\* strings.ReplaceAll(s, old, new) for one-byte old and new.
ReplaceAll(str, old, new) ==
    [i \in 1..Len(str) |-> IF str[i] = old THEN new ELSE str[i]]

GithubIDPrefix == <<103, 105, 116, 104, 117, 98, 95>>   \* "github_"
GcalIDPrefix == <<103, 99, 97, 108, 95>>                \* "gcal_"
Slash == 47                                             \* '/'
Underscore == 95                                        \* '_'

\* An issue whose identifier also took in the title.
convertIssueMutantTitleInID(repo, issue) ==
    [ID |-> GithubIDPrefix \o ReplaceAll(repo, Slash, Underscore)
               \o <<Underscore>> \o FmtInt(issue.Number)
               \o (IF issue.Title = "a" THEN <<>> ELSE <<Underscore>>),
     Repo |-> repo, Number |-> issue.Number, Title |-> issue.Title,
     Body |-> issue.Body, State |-> issue.State, Type |-> "issue",
     Merged |-> FALSE, UpdatedAt |-> issue.UpdatedAt]

\* convertIssue: fmt.Sprintf("github_%s_%d", repoSlug, issue.GetNumber()).
convertIssue(repo, issue) ==
    [ID |-> GithubIDPrefix \o ReplaceAll(repo, Slash, Underscore)
               \o <<Underscore>> \o FmtInt(issue.Number),
     Repo |-> repo, Number |-> issue.Number, Title |-> issue.Title,
     Body |-> issue.Body, State |-> issue.State, Type |-> "issue",
     Merged |-> FALSE, UpdatedAt |-> issue.UpdatedAt]

\* convertPR: the same identifier, built from the pull request's number.
convertPR(repo, pr) ==
    [ID |-> GithubIDPrefix \o ReplaceAll(repo, Slash, Underscore)
               \o <<Underscore>> \o FmtInt(pr.Number),
     Repo |-> repo, Number |-> pr.Number, Title |-> pr.Title,
     Body |-> pr.Body, State |-> pr.State, Type |-> "pull_request",
     Merged |-> pr.Merged, UpdatedAt |-> pr.UpdatedAt]

\* convertEvent: fmt.Sprintf("gcal_%s", item.Id).
convertEvent(calendarID, item) ==
    [ID |-> GcalIDPrefix \o item.Id, CalendarID |-> calendarID,
     Title |-> item.Summary, Location |-> item.Location,
     Status |-> item.Status, Start |-> item.Start, End |-> item.End,
     UpdatedAt |-> item.Updated, Verb |-> ""]

\* What the APIs return: issue 1 and pull request 12 of repository "o/r",
\* event "e1" of calendar "primary", document "d1".
ConvRepo == <<111, 47, 114>>                            \* "o/r"
RemoteIssues ==
    [Number : {1}, Title : {"a", "b"}, Body : {"", "x"},
     State : {"open", "closed"}, UpdatedAt : {1}]
RemotePRs ==
    {pr \in [Number : {12}, Title : {"a", "b"}, Body : {""},
             State : {"open", "closed"}, Merged : BOOLEAN, UpdatedAt : {1}] :
        pr.Merged => pr.State = "closed"}
RemoteEvents ==
    [Id : {<<101, 49>>}, Summary : {"a", "b"}, Location : {""},
     Status : {"confirmed", "cancelled"}, Start : {10}, End : {12},
     Updated : {1}]

\* The record of a conversion: converted.<source>[key] is the identifier the
\* remote record with these immutable fields got last.
Converted(src, key, id) ==
    [converted EXCEPT ![src] = BucketPut(@, key, id),
                      !.last = [src |-> src, key |-> key, id |-> id]]

\* syncRepo's loops and Sync's loop body: convert, then upsert.
ConvertIssueCall(issue) ==
    LET gi == convertIssue(ConvRepo, issue)
    IN /\ GhUpsertCall(gi)
       /\ converted' = Converted("github", <<ConvRepo, issue.Number>>, gi.ID)

ConvertPRCall(pr) ==
    LET gi == convertPR(ConvRepo, pr)
    IN /\ GhUpsertCall(gi)
       /\ converted' = Converted("github", <<ConvRepo, pr.Number>>, gi.ID)

\* syncCalendar's loop and Sync's loop body.
ConvertEventCall(item) ==
    LET event == convertEvent("primary", item)
    IN /\ CalUpsertCall(event)
       /\ converted' = Converted("calendar", item.Id, event.ID)

\* ReadwiseSyncer.Sync's loop body: doc.ID is the key as it is.
ConvertDocCall(docID, highlights) ==
    /\ RwUpsertCall(docID, highlights)
    /\ converted' = Converted("readwise", docID, docID)

ConvertNext ==
    \/ /\ \E issue \in RemoteIssues : ConvertIssueCall(issue)
       /\ UNCHANGED <<httpVars, sessVars>>
    \/ /\ \E pr \in RemotePRs : ConvertPRCall(pr)
       /\ UNCHANGED <<httpVars, sessVars>>
    \/ /\ \E item \in RemoteEvents : ConvertEventCall(item)
       /\ UNCHANGED <<httpVars, sessVars>>
    \/ /\ \E d \in RwDocIds : \E hs \in RwHighlightSets : ConvertDocCall(d, hs)
       /\ UNCHANGED <<httpVars, sessVars>>

SpecConvert == QueueInit /\ [][ConvertNext]_vars

-----------------------------------------------------------------------------
(* ReadwiseSyncer.Sync from what fetchAll returned: the documents and the  *)
(* highlights come as two lists, a highlight naming its parent document.   *)

\* The parent_id of each highlight the API can return.
ParentID == [h \in {"h1", "h2", "h3"} |->
                IF h = "h3" THEN "d2" ELSE "d1"]
RwFetchedDocs == {<<>>, <<"d1">>, <<"d2">>, <<"d1", "d2">>}
RwFetchedHighlights == SUBSET DOMAIN ParentID

\* highlightsByDoc[docID]: the fetched highlights whose parent is docID.
highlightsByDoc(highlights, docID) ==
    {h \in highlights : ParentID[h] = docID}

\* The loop of Sync over docs: a document without fetched highlights is
\* passed over; for the others checkIfNew, the result, storeDocState.
RECURSIVE RwSyncLoop(_, _, _, _, _)
RwSyncLoop(store, docs, highlights, results, now) ==
    IF docs = <<>> THEN [store |-> store, results |-> results]
    ELSE LET docID == Head(docs)
             docHighlights == highlightsByDoc(highlights, docID)
             c == checkIfNew(store, docID, docHighlights)
         IN IF docHighlights = {}
            THEN RwSyncLoop(store, Tail(docs), highlights, results, now)
            ELSE RwSyncLoop(
                    storeDocState(store, docID, docHighlights, now),
                    Tail(docs), highlights,
                    IF RwEmits(c)
                    THEN Append(results,
                                [Document |-> [ID |-> docID, Title |-> "doc"],
                                 Highlights |-> docHighlights,
                                 IsNew |-> c.isNew])
                    ELSE results,
                    now)

\* One Sync whose fetch succeeded, start to end, with no other run beside it.
RwSyncCall(docs, highlights) ==
    /\ \E now \in clock..MaxClock :
          LET r == RwSyncLoop(rwStore, docs, highlights, <<>>, now)
          IN /\ rwStore' = r.store
             /\ rwLastSync' = now
             /\ clock' = now
             /\ lastCall' = [src |-> "readwise", docs |-> docs,
                             highlights |-> highlights,
                             results |-> r.results,
                             flip |-> ~lastCall.flip]
    /\ UNCHANGED <<queueVars, ghStore, calStore, runs, nRuns, fetchVars>>

ReadwiseNext ==
    /\ \E docs \in RwFetchedDocs, highlights \in RwFetchedHighlights :
          RwSyncCall(docs, highlights)
    /\ UNCHANGED <<httpVars, sessVars, convVars>>

SpecReadwise == QueueInit /\ [][ReadwiseNext]_vars

----------------------------------------------------------------------------
(* Claims about the queue, checked under SpecQueue.                        *)

QueuedItems == {queue[id] : id \in DOMAIN queue}
DeliveredAt == 1..Len(delivered)

\* C1. At-most-once pop: whatever the interleaving of stream sessions,
\* /pending requests and enqueues, no item is returned by two popOldest
\* calls, and an item that has been returned is no longer in the queue.
C1_AtMostOncePop ==
    /\ \A i \in DeliveredAt : \A j \in DeliveredAt :
          i # j => delivered[i].ser # delivered[j].ser
    /\ \A i \in DeliveredAt : \A it \in QueuedItems :
          it.ser # delivered[i].ser

\* Two items have been popped while both sessions are open and a third item
\* is still queued.
C1_Witness ==
    /\ Len(delivered) = 2
    /\ streams = Sessions
    /\ QueuedItems # {}

\* C2. A popOldest call on a non-empty queue returns the queued item with
\* the lowest ID and removes exactly that item; a call that returns nothing
\* found the queue empty and changed nothing.
C2_PopsLowestId ==
    [][/\ Len(delivered') = Len(delivered) + 1 =>
            /\ lastPop' # NoItem
            /\ lastPop'.ID \in DOMAIN queue
            /\ queue[lastPop'.ID] = lastPop'
            /\ delivered'[Len(delivered')] =
                  [ID |-> lastPop'.ID, ser |-> lastPop'.ser]
            /\ \A o \in DOMAIN queue \ {lastPop'.ID} : StrLess(lastPop'.ID, o)
            /\ queue' = [id \in DOMAIN queue \ {lastPop'.ID} |-> queue[id]]
       /\ (lastPop' = NoItem /\ lastPop # NoItem) =>
            /\ DOMAIN queue = {}
            /\ queue' = queue
            /\ delivered' = delivered
      ]_vars

\* Three items enqueued with the highest, the lowest and the middle ID, in
\* that order (the spec's 3,1,2), have been popped lowest first.
C2_Witness ==
    /\ Len(delivered) = 3
    /\ <<delivered[1].ser, delivered[2].ser, delivered[3].ser>> = <<2, 3, 1>>
    /\ StrLess(delivered[1].ID, delivered[2].ID)
    /\ StrLess(delivered[2].ID, delivered[3].ID)

\* C3. The sequence of identifiers delivered over an execution is
\* non-decreasing.
C3_DeliveredNonDecreasing ==
    \A i \in DeliveredAt : \A j \in DeliveredAt :
        i < j => ~StrLess(delivered[j].ID, delivered[i].ID)

\* C4. Global FIFO across producers: an item enqueued before another, both
\* queued together, is popped first. An item still queued was queued when
\* every delivered item of a later ordinal was popped.
C4_GlobalFifo ==
    /\ \A i \in DeliveredAt : \A it \in QueuedItems :
          delivered[i].ser < it.ser
    /\ \A i \in DeliveredAt : \A j \in DeliveredAt :
          i < j => delivered[i].ser < delivered[j].ser

\* The items enqueued so far that are still queued or have been delivered.
EnqueuedKnown ==
    {[ID |-> it.ID, ser |-> it.ser] : it \in QueuedItems}
        \cup {delivered[i] : i \in DeliveredAt}

\* C5. Queue identifiers are strictly increasing in enqueue order, hence
\* pairwise distinct, also when two enqueues observe the same clock reading:
\* no enqueue lands on an ID in use, and a later enqueue has the greater ID.
C5_IdsStrictlyIncreasing ==
    /\ Cardinality(EnqueuedKnown) = nEnq
    /\ \A a \in EnqueuedKnown : \A b \in EnqueuedKnown :
          a.ser < b.ser => StrLess(a.ID, b.ID)

\* C6. Every enqueue appends: a step that runs n assignments to the queue
\* leaves it n items longer, and every item queued before is still there,
\* unaltered.
C6_EnqueueAppends ==
    [][nEnq' > nEnq =>
          /\ Cardinality(DOMAIN queue') =
                Cardinality(DOMAIN queue) + (nEnq' - nEnq)
          /\ \A id \in DOMAIN queue :
                id \in DOMAIN queue' /\ queue'[id] = queue[id]
      ]_vars

----------------------------------------------------------------------------
(* Claims about the upserts, checked under SpecUpsert.                     *)

\* The step is an upsert call.
UpsertStep == lastCall'.src # "none" /\ lastCall'.flip # lastCall.flip

\* The store of a source, among the three given.
StoreIn(src, gh, cal, rw) ==
    CASE src = "github" -> gh
      [] src = "calendar" -> cal
      [] src = "readwise" -> rw

\* C8. Idempotence: an upsert that follows an upsert of an identical record
\* of the same source is classified unchanged, emits nothing and leaves
\* every store as it was.
C8_UpsertIdempotent ==
    [][(/\ UpsertStep
        /\ lastCall.src = lastCall'.src
        /\ lastCall.rec = lastCall'.rec) =>
            /\ lastCall'.action = "unchanged"
            /\ ~lastCall'.emitted
            /\ <<ghStore, calStore, rwStore>>' = <<ghStore, calStore, rwStore>>
      ]_vars

GhTracked == {"State", "Title"}
CalTracked == {"Title", "Start", "End", "Location", "Status"}

\* C10. With a snapshot stored, a GitHub or calendar upsert returns
\* unchanged exactly when every tracked field equals the stored one and the
\* fetched last-modified time is not later than the stored one; otherwise it
\* returns updated or cancelled.
C10_UnchangedIffNothingNewer ==
    [][(/\ UpsertStep
        /\ lastCall'.src \in {"github", "calendar"}
        /\ lastCall'.rec.ID \in
              DOMAIN StoreIn(lastCall'.src, ghStore, calStore, rwStore)) =>
          LET new == lastCall'.rec
              old == StoreIn(lastCall'.src, ghStore, calStore, rwStore)[new.ID]
              tracked == IF lastCall'.src = "github" THEN GhTracked
                         ELSE CalTracked
              same == /\ \A f \in tracked : old[f] = new[f]
                      /\ new.UpdatedAt <= old.UpdatedAt
          IN /\ lastCall'.action = "unchanged" <=> same
             /\ ~same => lastCall'.action \in {"updated", "cancelled"}
      ]_vars

\* With an issue stored at the later time, a calendar event carrying the
\* later time has been classified updated over its snapshot.
C10_Witness ==
    /\ lastCall.src = "calendar"
    /\ lastCall.action = "updated"
    /\ lastCall.rec.UpdatedAt = 2
    /\ "github_o_r_1" \in DOMAIN ghStore
    /\ ghStore["github_o_r_1"].UpdatedAt = 2
    /\ ghStore["github_o_r_1"].State = "open"

\* C12. GitHub verbs over an issue's lifecycle: first seen open, an issue is
\* created with verb opened; when its state becomes closed, or it becomes
\* merged, it is updated with verb closed, or merged; any other detected
\* change is updated with verb updated; no change is unchanged, not emitted.
C12_GitHubVerbs ==
    [][(UpsertStep /\ lastCall'.src = "github") =>
          LET new == lastCall'.rec
              had == new.ID \in DOMAIN ghStore
              old == ghStore[new.ID]
              closes == /\ had /\ old.State = "open"
                        /\ new.State = "closed" /\ ~new.Merged
              merges == had /\ old.State = "open" /\ new.Merged
              same == /\ had
                      /\ \A f \in GhTracked : old[f] = new[f]
                      /\ new.UpdatedAt <= old.UpdatedAt
          IN /\ (~had /\ new.State = "open") =>
                   lastCall'.action = "created" /\ lastCall'.verb = "opened"
             /\ closes =>
                   lastCall'.action = "updated" /\ lastCall'.verb = "closed"
             /\ merges =>
                   lastCall'.action = "updated" /\ lastCall'.verb = "merged"
             /\ (had /\ ~same /\ ~closes /\ ~merges) =>
                   lastCall'.action = "updated" /\ lastCall'.verb = "updated"
             /\ same =>
                   lastCall'.action = "unchanged" /\ ~lastCall'.emitted
      ]_vars

\* C11. A calendar upsert classifies its event cancelled, with verb
\* cancelled, exactly when a snapshot exists, the fetched status is cancelled
\* and the stored status is not, whatever else changed; the event is then
\* emitted and the snapshot cancelled, so that a later upsert of the event
\* still cancelled, with nothing else changed, is unchanged and emits nothing.
C11_CancelledIffStatusFlips ==
    [][(UpsertStep /\ lastCall'.src = "calendar") =>
          LET new == lastCall'.rec
              had == new.ID \in DOMAIN calStore
              old == calStore[new.ID]
              flips == /\ had
                       /\ new.Status = "cancelled"
                       /\ old.Status # "cancelled"
          IN /\ lastCall'.action = "cancelled" <=> flips
             /\ lastCall'.verb = "cancelled" <=> flips
             /\ flips =>
                   /\ lastCall'.emitted
                   /\ calStore'[new.ID].Status = "cancelled"
             /\ (/\ had
                 /\ old.Status = "cancelled"
                 /\ \A f \in CalTracked : old[f] = new[f]
                 /\ new.UpdatedAt <= old.UpdatedAt) =>
                   /\ lastCall'.action = "unchanged"
                   /\ ~lastCall'.emitted
                   /\ calStore' = calStore
      ]_vars

\* An event stored confirmed has been fetched cancelled under another title
\* and at a later time, and classified cancelled.
C11_Witness ==
    /\ lastCall.src = "calendar"
    /\ lastCall.action = "cancelled"
    /\ lastCall.verb = "cancelled"
    /\ lastCall.rec.Title = "b"
    /\ lastCall.rec.UpdatedAt = 2
    /\ calStore["gcal_e1"].Status = "cancelled"

\* C13. A Readwise document with a stored snapshot is emitted, as updated
\* and not as new, exactly when at least one fetched highlight id is outside
\* the stored set of highlight ids; nothing of the document itself is
\* compared.
C13_NewHighlightsDetected ==
    [][(/\ UpsertStep
        /\ lastCall'.src = "readwise"
        /\ lastCall'.rec.ID \in DOMAIN rwStore) =>
          LET fetched == lastCall'.rec.Highlights
              S == rwStore[lastCall'.rec.ID].HighlightIDs
          IN /\ lastCall'.emitted <=> fetched \ S # {}
             /\ lastCall'.emitted => lastCall'.action = "updated"
             /\ ~lastCall'.emitted => lastCall'.action = "unchanged"
      ]_vars

\* A stored document has been fetched with two highlights, one of them not
\* stored before, and emitted as updated.
C13_Witness ==
    /\ lastCall.src = "readwise"
    /\ lastCall.action = "updated"
    /\ lastCall.emitted
    /\ lastCall.rec.Highlights = {"h1", "h2"}
    /\ rwStore["d1"].HighlightIDs = {"h1", "h2"}

----------------------------------------------------------------------------
(* Claims about the sync runs, checked under SpecRuns.                     *)

\* C7. Single-flight per source: no two runs of one source are in progress
\* together, whether started by the source's timer or by POST /sync/{source}.
C7_SingleFlightPerSource ==
    \A src \in Sources :
        Cardinality({g \in InProgress : g[1] = src}) <= 1

\* C15. An authorized POST /sync/{source} with resync=true wipes the source's
\* store, and for Readwise its last_sync mark too, before the run it starts
\* begins; without resync=true it wipes nothing.
C15_ResyncWipesFirst ==
    [][\A src \in Sources :
          (runs[Trigger(src)] = Idle /\ runs'[Trigger(src)] # Idle) =>
              LET before == StoreIn(src, ghStore, calStore, rwStore)
                  after == StoreIn(src, ghStore', calStore', rwStore')
              IN /\ runs'[Trigger(src)].pc = "fetch"
                 /\ runs'[Trigger(src)].resync =>
                       /\ DOMAIN after = {}
                       /\ src = "readwise" => rwLastSync' = 0
                 /\ ~runs'[Trigger(src)].resync =>
                       /\ after = before
                       /\ rwLastSync' = rwLastSync
      ]_vars

----------------------------------------------------------------------------
(* Claims about the fetches, checked under SpecFetch.                      *)

\* The numbers of the records of a sequence.
Nums(records) == {records[i].num : i \in 1..Len(records)}

\* C16. A fetch that succeeds returns every record the service lists for the
\* scope, however many: none is left on a page that was not asked for.
C16_FetchComplete ==
    (lastFetch.src # "none" /\ lastFetch.ok) =>
        Nums(lastFetch.records) = Nums(upstream[lastFetch.src])

\* C17: within a cycle of GitHub or calendar, the fetch of a repository or
\* calendar fails only when its own request was answered with an error or
\* not at all: a failure of one scope's fetch never makes the fetch of a
\* sibling scope fail, so a sibling the API answers is fetched and upserted.
C17_FetchFailureIsolated ==
    \A g \in Goroutines :
        (g[1] \in {"github", "calendar"} /\ runs[g] # Idle) =>
            \A i \in 1..Len(runs[g].fetches) :
                runs[g].fetches[i].failed =>
                    runs[g].fetches[i].answer # "ok"

\* What a run has collected for emission, and the errors its result counts
\* (the result of the Readwise Sync counts none).
Collected(run) ==
    IF "result" \in DOMAIN run
    THEN [r \in DOMAIN run.result \ {"Unchanged"} |-> run.result[r]]
    ELSE [results |-> run.results]
ErrorCount(run) == IF "errors" \in DOMAIN run THEN run.errors ELSE 0
UpsertFailed(g) ==
    /\ runs[g] # Idle /\ runs'[g] # Idle
    /\ runs'[g].storeErrs = runs[g].storeErrs + 1

\* C18: a step in which a record's upsert fails leaves every stored snapshot
\* of every source as it was, does not add the record to what the run emits,
\* counts one more error in the run's result, and the run goes on with the
\* records that remain.
C18_StorageFailureSkipsRecord ==
    [][\A g \in Goroutines :
          UpsertFailed(g) =>
              /\ ghStore' = ghStore /\ calStore' = calStore
              /\ rwStore' = rwStore
              /\ Collected(runs'[g]) = Collected(runs[g])
              /\ ErrorCount(runs'[g]) = ErrorCount(runs[g]) + 1
              /\ runs'[g].todo \in {Tail(runs[g].todo), <<>>}]_vars

----------------------------------------------------------------------------
(* Claims about the HTTP layer, checked under SpecHttp.                    *)

\* The token a request presents: the one in its Authorization header (less
\* the Bearer scheme), or the token query parameter when the header carries
\* none.
PresentedToken(resp) ==
    IF resp.header \in {<<>>, Bearer} THEN resp.query
    ELSE TrimPrefix(resp.header, Bearer)
PostOnly == {"/queue", "/sync/github", "/sync/calendar", "/sync/readwise"}
Answered == lastResp' # lastResp

\* C19 as stated: a request to /queue, /stream, /pending, /peek or
\* /sync/{source} that presents a token other than the server's is answered
\* 401 and leaves the queue, the stores and the runs as they were.
C19_WrongTokenUnauthorized ==
    [][(Answered /\ PresentedToken(lastResp') # ServerToken) =>
          /\ lastResp'.status = 401
          /\ UNCHANGED serverVars]_vars

\* C19 as amended: such a request leaves the queue, the stores and the runs
\* as they were, and is answered 401, unless it is a preflight (OPTIONS,
\* answered 200) or has another method than POST on a POST-only endpoint
\* (answered 405).
C19_WrongTokenChangesNothing ==
    [][(Answered /\ PresentedToken(lastResp') # ServerToken) =>
          /\ UNCHANGED serverVars
          /\ lastResp'.status =
                IF lastResp'.method = "OPTIONS" THEN 200
                ELSE IF lastResp'.endpoint \in PostOnly
                        /\ lastResp'.method # "POST" THEN 405
                ELSE 401]_vars

\* A request for the oldest item, with a wrong bearer token and the right
\* token in the query, was refused while the queue held an item.
C19_Witness ==
    /\ lastResp.endpoint = "/pending"
    /\ lastResp.header = Bearer \o WrongToken
    /\ lastResp.query = ServerToken
    /\ lastResp.status = 401
    /\ queue # <<>>

\* C20: a POST /queue whose body is not valid JSON or whose content is empty
\* is answered with a client error and neither the queue nor the request's
\* item in the making changes; a request that does put an item on its way
\* has non-empty content.
C20_MalformedPostRejected ==
    [][(Answered /\ lastResp'.endpoint = "/queue"
                 /\ lastResp'.method = "POST") =>
          /\ (lastResp'.body.json # "object" \/ lastResp'.body.content = "")
                => /\ lastResp'.status \in 400..499
                   /\ queue' = queue /\ posting' = posting
          /\ posting' # posting => lastResp'.body.content # ""]_vars

----------------------------------------------------------------------------
(* Claims about what changes the queue, checked under SpecQueue.           *)

\* The listing of a queue: every queued item once, in increasing order of
\* identifier, with their number.
PeekLists(q) ==
    LET p == peekResponse(q)
    IN /\ p.count = Cardinality(DOMAIN q)
       /\ Len(p.items) = p.count
       /\ {p.items[i].ID : i \in 1..Len(p.items)} = DOMAIN q
       /\ \A i \in 1..Len(p.items) : p.items[i] = q[p.items[i].ID]
       /\ \A i \in 1..Len(p.items) : \A j \in 1..Len(p.items) :
             i < j => StrLess(p.items[i].ID, p.items[j].ID)

\* C21. Only a pop takes an item out of the queue or changes it: in every
\* step each queued item stays in the queue as it is, unless that step is the
\* popOldest call that returns it; and the listing /peek gives of the queue
\* is all its items sorted by identifier with their count.
C21_QueuedItemsStayUntilPopped ==
    [][/\ \A id \in DOMAIN queue :
             \/ id \in DOMAIN queue' /\ queue'[id] = queue[id]
             \/ /\ Len(delivered') = Len(delivered) + 1
                /\ delivered'[Len(delivered')] =
                      [ID |-> id, ser |-> queue[id].ser]
       /\ PeekLists(queue')]_vars

\* C22. Each poll takes at most one item: no step takes two items out of the
\* queue; a popOldest call on a queue that holds items returns exactly one of
\* them and removes it and nothing else; a call that returns nothing (the
\* session then sends a heartbeat, /pending answers 204) found the queue
\* empty and left it so.
C22_PollPopsAtMostOne ==
    [][/\ Cardinality(DOMAIN queue \ DOMAIN queue') <= 1
       /\ Len(delivered') > Len(delivered) =>
             LET d == delivered'[Len(delivered')]
             IN /\ Len(delivered') = Len(delivered) + 1
                /\ d.ID \in DOMAIN queue /\ d.ser = queue[d.ID].ser
                /\ lastPop'.ID = d.ID /\ lastPop'.ser = d.ser
                /\ DOMAIN queue' = DOMAIN queue \ {d.ID}
                /\ \A id \in DOMAIN queue' : queue'[id].ser = queue[id].ser
       /\ (lastPop' = NoItem /\ lastPop # NoItem) =>
             queue = <<>> /\ queue' = <<>> /\ delivered' = delivered]_vars

\* A session has sent one item and has then polled the empty queue.
C22_Witness ==
    /\ Len(delivered) = 1
    /\ lastPop = NoItem
    /\ streams # {}
    /\ queue = <<>>

-----------------------------------------------------------------------------
(* Claims about the /stream session, checked under SpecStream and, for     *)
(* termination, under SpecStreamFair.                                      *)

\* What ends the select loop of session s: its timer or its client.
Closing(s) == signals[s].timeout \/ signals[s].done

C24_NoPopAfterClose ==
    [][\A s \in Watched :
          (s \in streams /\ Closing(s)) =>
             signals'[s].popped = signals[s].popped]_vars

\* C25. One consumer at a time: while a stream session that has popped an
\* item is open, no other consumer (another session, a /pending request)
\* pops an item.
C25_OneConsumerAtATime ==
    [][\A s \in Watched :
          (/\ s \in streams
           /\ signals[s].popped > 0
           /\ Len(delivered') > Len(delivered))
             => signals'[s].popped > signals[s].popped]_vars

-----------------------------------------------------------------------------
(* Claims about what the stores hold, checked under SpecUpsert.            *)

\* No document of any bucket has a verb field.
NoVerbStored ==
    /\ \A id \in DOMAIN ghStore : "Verb" \notin DOMAIN ghStore[id]
    /\ \A id \in DOMAIN calStore : "Verb" \notin DOMAIN calStore[id]
    /\ \A id \in DOMAIN rwStore : "Verb" \notin DOMAIN rwStore[id]

\* The calendar upsert of this step was handed the record whose snapshot is
\* the stored one.
SameEventAgain ==
    /\ lastCall' # lastCall
    /\ lastCall'.src = "calendar"
    /\ "action" \in DOMAIN lastCall'
    /\ lastCall'.rec.ID \in DOMAIN calStore
    /\ calStore[lastCall'.rec.ID] = MarshalEvent(lastCall'.rec)

\* C26. The verb is never persisted: no stored snapshot has a verb field,
\* a snapshot read back has the empty verb, and upserting again the record
\* whose snapshot is stored yields no verb, emits nothing and leaves the
\* store as it is.
C26_VerbNeverPersisted ==
    /\ [](/\ NoVerbStored
          /\ \A id \in DOMAIN calStore : UnmarshalEvent(calStore[id]).Verb = "")
    /\ [][SameEventAgain =>
             /\ lastCall'.verb = ""
             /\ lastCall'.action = "unchanged"
             /\ ~lastCall'.emitted
             /\ calStore' = calStore]_vars

\* An event that was stored with a verb returned (created, updated or
\* cancelled) has been upserted again and has got no verb.
C26_Witness ==
    /\ lastCall.src = "calendar"
    /\ "action" \in DOMAIN lastCall
    /\ lastCall.action = "unchanged" /\ lastCall.verb = ""
    /\ lastCall.rec.ID \in DOMAIN calStore
    /\ calStore[lastCall.rec.ID] = MarshalEvent(lastCall.rec)
    /\ lastCall.rec.Status = "cancelled"

-----------------------------------------------------------------------------
(* Claims about the identifiers, checked under SpecConvert.                *)

\* The snapshots of the source the last conversion was for.
StoreOf(src) ==
    CASE src = "github" -> ghStore
      [] src = "calendar" -> calStore
      [] OTHER -> rwStore

\* C27. Identifier stability: a remote record that is converted again,
\* whatever its title, body, state or status now, gets the identifier it got
\* before, and its upsert lands on the snapshot stored under it: no second
\* snapshot appears and the record is not classified as created.
C27_IdentifierStable ==
    [][\A src \in {"github", "calendar", "readwise"} :
          \A key \in DOMAIN converted[src] :
             /\ converted'[src][key] = converted[src][key]
             /\ (converted' # converted /\ converted'.last.src = src
                   /\ converted'.last.key = key) =>
                   /\ converted'.last.id = converted[src][key]
                   /\ DOMAIN StoreOf(src)' = DOMAIN StoreOf(src)
                   /\ lastCall'.rec.ID = converted[src][key]
                   /\ lastCall'.action # "created"]_vars

\* Issue 1 has been converted with a new title and state and was filed as
\* an update of its one snapshot, beside the snapshot of pull request 12.
C27_Witness ==
    /\ converted.last.src = "github"
    /\ converted.last.key = <<ConvRepo, 1>>
    /\ lastCall.action = "updated"
    /\ lastCall.rec.Title = "b" /\ lastCall.rec.State = "closed"
    /\ Cardinality(DOMAIN ghStore) = 2
    /\ DOMAIN calStore # {} /\ DOMAIN rwStore # {}

-----------------------------------------------------------------------------
(* Claims about the Readwise documents, checked under SpecRuns and         *)
(* SpecUpsert.                                                             *)

\* Readwise run g puts a document among its results in this step.
RwFiles(g) ==
    /\ g[1] = "readwise"
    /\ runs[g] # Idle /\ runs'[g] # Idle
    /\ Len(runs'[g].results) = Len(runs[g].results) + 1

\* The document run g has just put among its results.
RwFiled(g) == runs'[g].results[Len(runs'[g].results)]

\* Run g holds document docID among its results as a new one.
HoldsAsNew(g, docID) ==
    /\ g[1] = "readwise" /\ runs[g] # Idle
    /\ \E i \in 1..Len(runs[g].results) :
          /\ runs[g].results[i].IsNew
          /\ runs[g].results[i].Document.ID = docID

\* C28. The first-sight marker is given once: a run files a document as new
\* only when no snapshot of it is stored and no other run holds it as new;
\* and it files a stored document only with a highlight that is not in the
\* stored set, whatever runs interleave.
C28_NewMarkerOnce ==
    [][\A g \in Goroutines :
          RwFiles(g) =>
             LET d == RwFiled(g)
             IN IF d.IsNew
                THEN /\ d.Document.ID \notin DOMAIN rwStore
                     /\ \A g2 \in Goroutines \ {g} :
                           ~HoldsAsNew(g2, d.Document.ID)
                ELSE /\ d.Document.ID \in DOMAIN rwStore
                     /\ \E h \in d.Highlights :
                           h \notin rwStore[d.Document.ID].HighlightIDs]_vars

\* C29. The stored child-id set only grows: a step keeps every document's
\* stored highlight ids, and after a document was synced its stored set holds
\* the highlights just fetched for it.
C29_ChildIdsAccumulate ==
    [][/\ \A d \in DOMAIN rwStore :
             /\ d \in DOMAIN rwStore'
             /\ rwStore[d].HighlightIDs \subseteq rwStore'[d].HighlightIDs
       /\ (lastCall' # lastCall /\ lastCall'.src = "readwise") =>
             lastCall'.rec.Highlights \subseteq
                 rwStore'[lastCall'.rec.ID].HighlightIDs]_vars

\* The documents a Sync has put among its results.
Announced(call) ==
    {call.results[i].Document.ID : i \in 1..Len(call.results)}

\* C30. A document with new children is always announced: a Sync whose
\* fetch returned a highlight that is not in the stored child-id set of its
\* parent has the parent among its results, whether or not the fetch
\* returned the parent document too.
C30_NewChildrenAnnounced ==
    [][lastCall' # lastCall =>
          \A h \in lastCall'.highlights :
             (/\ ParentID[h] \in DOMAIN rwStore
              /\ h \notin rwStore[ParentID[h]].HighlightIDs)
                => ParentID[h] \in Announced(lastCall')]_vars

-----------------------------------------------------------------------------
(* Claims about what an upsert writes, checked under SpecUpsert.           *)

\* C31. An upsert writes only with a change: a call that classifies its
\* record as unchanged leaves the three buckets exactly as they were.
C31_UnchangedWritesNothing ==
    [][(/\ lastCall' # lastCall
        /\ "action" \in DOMAIN lastCall'
        /\ lastCall'.action = "unchanged") =>
          /\ ghStore' = ghStore
          /\ calStore' = calStore
          /\ rwStore' = rwStore]_vars

-----------------------------------------------------------------------------
(* Claims about what a sync run enqueues, checked under SpecRuns.          *)

\* The records run g has classified as created, updated or cancelled (for
\* Readwise: as new or with new highlights), as doSync hands them on.
ChangesOf(g) ==
    CASE g[1] = "github" -> GhChanges(runs[g].result)
      [] g[1] = "calendar" -> CalChanges(runs[g].result)
      [] OTHER -> runs[g].results

\* Run g ends in this step with the part of doSync that follows Sync.
Notifies(g) ==
    runs[g] # Idle /\ runs[g].pc = "notify" /\ runs'[g] = Idle

\* C32. Emission follows classification: a run that ends hands each of its
\* changed records to the queue once, and the queue then holds one more item
\* per changed record; a run without changes leaves the queue as it was.
C32_EmissionFollowsClassification ==
    [][\A g \in Goroutines :
          Notifies(g) =>
             /\ nEnq' - nEnq = Len(ChangesOf(g))
             /\ Cardinality(DOMAIN queue' \ DOMAIN queue) = Len(ChangesOf(g))
             /\ ChangesOf(g) = <<>> => queue' = queue]_vars

-----------------------------------------------------------------------------
(* Claims about the termination of sync runs, checked under SpecRunsFair.  *)

\* Sync has returned in run g: doSync is at its enqueue or has ended.
SyncReturned(g) == runs[g] = Idle \/ runs[g].pc = "notify"

\* C33. No run blocks indefinitely: the Sync of every run that was started
\* returns, whatever the services answer to its requests.
C33_RunsTerminate ==
    \A g \in Goroutines : (runs[g] # Idle) ~> SyncReturned(g)

-----------------------------------------------------------------------------
(* Claims about the fetches under failing requests, checked under          *)
(* SpecFetch.                                                              *)

\* C34. Transient failures are retried within the call: a fetch that met at
\* most two rate-limit responses, 5xx responses or network errors, with the
\* service answering afterwards, succeeds and returns every listed record
\* once.
C34_TransientFailuresRetried ==
    "answers" \in DOMAIN lastFetch =>
        /\ lastFetch.ok
        /\ Len(lastFetch.records) = Len(upstream["readwise"])
        /\ Nums(lastFetch.records) = Nums(upstream["readwise"])

-----------------------------------------------------------------------------
(* Claims about the lifetime of snapshots, checked under SpecRuns.         *)

\* The step is the wipe of a resync request for source src.
WipeStep(src) ==
    /\ runs[Trigger(src)] = Idle /\ runs'[Trigger(src)] # Idle
    /\ runs'[Trigger(src)].resync

\* The identifier of the record run g upserts next, if it is at an upsert.
Upserting(g) ==
    IF runs[g] = Idle THEN {}
    ELSE IF runs[g].pc = "upsert" THEN {Head(runs[g].todo).ID}
    ELSE IF runs[g].pc = "store" THEN {Head(runs[g].todo).Document.ID}
    ELSE {}

\* A step keeps the snapshots of a bucket, but for the records being upserted.
KeepsSnapshots(store, storeNext, src) ==
    \A id \in DOMAIN store :
        /\ id \in DOMAIN storeNext
        /\ storeNext[id] # store[id] =>
              \E g \in Goroutines : g[1] = src /\ id \in Upserting(g)

\* The identifiers among the changes a run has collected.
ChangedIDs(changes) ==
    {IF "Document" \in DOMAIN changes[i] THEN changes[i].Document.ID
     ELSE changes[i].ID : i \in 1..Len(changes)}

\* C35. A sync run never deletes a snapshot and infers nothing from absence:
\* but for the wipe of a resync request, every step keeps every stored
\* identifier, changes only the snapshot of the record it upserts, and adds
\* to a run's changes only the record that run upserts.
C35_NoRetractionFromAbsence ==
    [][/\ ~WipeStep("github") => KeepsSnapshots(ghStore, ghStore', "github")
       /\ ~WipeStep("calendar") =>
             KeepsSnapshots(calStore, calStore', "calendar")
       /\ KeepsSnapshots(rwStore, rwStore', "readwise")
       /\ \A g \in Goroutines :
             (runs[g] # Idle /\ runs'[g] # Idle) =>
                ChangedIDs(ChangesOf(g)') \ ChangedIDs(ChangesOf(g))
                   \subseteq Upserting(g)]_vars

\* A GitHub run has fetched both repositories, found nothing listed and
\* collected nothing, and the two snapshots stored earlier are still there.
C35_Witness ==
    \E g \in Goroutines :
        /\ g[1] = "github" /\ runs[g] # Idle /\ runs[g].pc = "notify"
        /\ Len(runs[g].fetches) = 2
        /\ \A i \in 1..2 : ~runs[g].fetches[i].failed
        /\ GhChanges(runs[g].result) = <<>>
        /\ runs[g].result.Unchanged = 0
        /\ Cardinality(DOMAIN ghStore) = 2

-----------------------------------------------------------------------------
(* Claims about what an upsert leaves stored, checked under SpecUpsert.    *)

\* Snapshot and record agree on the fields in `tracked`.
Agree(snapshot, rec, tracked) == \A f \in tracked : snapshot[f] = rec[f]

\* C36. The remote wins: after an upsert of a GitHub or calendar record,
\* whatever its classification, the snapshot stored under its identifier
\* agrees with the record on every tracked field.
C36_RemoteWins ==
    [][(lastCall' # lastCall /\ "action" \in DOMAIN lastCall') =>
          LET rec == lastCall'.rec
          IN /\ lastCall'.src = "github" =>
                   /\ rec.ID \in DOMAIN ghStore'
                   /\ Agree(ghStore'[rec.ID], rec, {"State", "Title"})
             /\ lastCall'.src = "calendar" =>
                   /\ rec.ID \in DOMAIN calStore'
                   /\ Agree(calStore'[rec.ID], rec,
                            {"Title", "Start", "End", "Location", "Status"})
      ]_vars

\* An event older than its snapshot was upserted and classified unchanged;
\* the snapshot, which was not written, agrees with it on the tracked fields.
C36_Witness ==
    /\ lastCall.src = "calendar"
    /\ "action" \in DOMAIN lastCall
    /\ lastCall.action = "unchanged"
    /\ lastCall.rec.ID \in DOMAIN calStore
    /\ calStore[lastCall.rec.ID].UpdatedAt > lastCall.rec.UpdatedAt
    /\ lastCall.rec.Location = "room"

-----------------------------------------------------------------------------
(* Claims about batches in the queue, checked under SpecQueue.             *)

\* The ordinals of the assignments a step ran on the queue.
Assigned == (nEnq + 1)..nEnq'

\* C37. A batch is enqueued whole: the step that enqueues a batch (one
\* locked section of s.mu, so no pop and no peek falls inside it) leaves every
\* item of the batch in the queue, and it neither removes nor alters an item
\* that another source has queued.
C37_BatchesWholeAndApart ==
    [][nEnq' > nEnq =>
          /\ \A k \in Assigned : \E id \in DOMAIN queue' : queue'[id].ser = k
          /\ \A id \in DOMAIN queue :
                /\ id \in DOMAIN queue'
                /\ queue'[id] # queue[id] =>
                      queue'[id].Title = queue[id].Title
      ]_vars

-----------------------------------------------------------------------------
(* Claims about the Readwise watermark, checked under SpecRuns.            *)

\* Run g of Readwise writes last_sync in this step.
Marks(g) ==
    g[1] = "readwise" /\ runs[g] # Idle /\ runs[g].pc = "mark"
        /\ runs'[g] # Idle /\ runs'[g].pc = "notify"

\* Run g of Readwise ends in this step on a fetch that failed.
FetchFails(g) ==
    g[1] = "readwise" /\ runs[g] # Idle /\ runs[g].pc = "fetch"
        /\ runs'[g] = Idle

\* C38. The watermark skips nothing: the last_sync a run writes is not later
\* than the moment its fetch began, and a run whose fetch failed leaves
\* last_sync and the store as they were.
C38_WatermarkNotAfterFetch ==
    [][\A g \in Goroutines :
          /\ Marks(g) => rwLastSync' <= runs[g].began
          /\ FetchFails(g) => rwLastSync' = rwLastSync /\ rwStore' = rwStore
      ]_vars

-----------------------------------------------------------------------------
(* Claims about the draining of the queue, checked under SpecQueueFair.    *)

\* The item stored by the k-th assignment to the queue has been popped.
Popped(k) == \E i \in DOMAIN delivered : delivered[i].ser = k

\* C39. The queue drains: with a consumer that keeps popping, every item
\* that was enqueued is popped in the end, and a queue that holds items
\* becomes empty.
C39_QueueDrains ==
    /\ \A k \in 1..MaxEnq : (nEnq >= k) ~> Popped(k)
    /\ (queue # <<>>) ~> (queue = <<>>)

-----------------------------------------------------------------------------
(* Claims about the order of a run's changes, checked under SpecRuns.      *)

\* The records of `order` with classification `action`, in their order.
RECURSIVE OfClass(_, _)
OfClass(order, action) ==
    IF order = <<>> THEN <<>>
    ELSE (IF Head(order).action = action THEN <<Head(order).rec>> ELSE <<>>)
             \o OfClass(Tail(order), action)

\* The changed records of `order`, whatever their classification.
RECURSIVE InUpsertOrder(_)
InUpsertOrder(order) ==
    IF order = <<>> THEN <<>>
    ELSE <<Head(order).rec>> \o InUpsertOrder(Tail(order))

\* The changed records of `order` class by class.
ByClass(order) ==
    OfClass(order, "created") \o OfClass(order, "updated")
        \o OfClass(order, "cancelled")

\* The k-th assignment of the step stored the k-th record of `changes`,
\* wherever its item is still in the queue.
StoredInOrder(changes) ==
    /\ nEnq' - nEnq = Len(changes)
    /\ \A id \in DOMAIN queue' :
          queue'[id].ser > nEnq =>
              queue'[id].Content = changes[queue'[id].ser - nEnq]

\* The runs of GitHub and of the calendar.
ScopedRuns == {g \in Goroutines : g[1] \in {"github", "calendar"}}

\* C40 as stated. A run enqueues its changes in the order in which their
\* records were upserted, whatever their classification.
C40_EnqueuedInUpsertOrder ==
    [][\A g \in ScopedRuns :
          Notifies(g) => StoredInOrder(InUpsertOrder(runs[g].order))]_vars

\* C40, amended. A run enqueues its changes class by class: the created
\* records, then the updated, then the cancelled, and the records of one
\* classification in the order in which they were upserted.
C40_EnqueuedByClass ==
    [][\A g \in ScopedRuns :
          Notifies(g) => StoredInOrder(ByClass(runs[g].order))]_vars

\* A run is about to enqueue a created record that it upserted after an
\* updated one, or a created or updated event upserted after a cancelled one.
C40_Witness ==
    \E g \in ScopedRuns :
        /\ runs[g] # Idle /\ runs[g].pc = "notify"
        /\ Len(runs[g].order) = 2
        /\ ByClass(runs[g].order) # InUpsertOrder(runs[g].order)

====
